---- MODULE Spec2Model ----
(***************************************************************************)
(* Model of the frame-processing core of the esp32cam_viewer client:       *)
(*   - DetectionThread        (core/detection_thread.py)                   *)
(*   - SpeedCalculationThread (core/speed_thread.py)                       *)
(*   - ControlThread          (core/control_thread.py) and the device's    *)
(*     control handler        (esp32_cam_thonny/esp32_cam_thonny.py)       *)
(*   - CameraApp's start/stop of the two worker threads                    *)
(*                            (ui/main_window.py)                          *)
(* Each component has its own specification over the shared variable list; *)
(* the variables of the other components stay in their constructed state.  *)
(***************************************************************************)
EXTENDS Integers, Sequences, FiniteSets, TLC

VARIABLES
  \* ---- DetectionThread ----
  det_pc,                    \* "init" | "started" | "loop" | "finished" | "crashed"
  det_running,               \* self.running
  det_total_count,           \* self.total_count
  det_detection_active,      \* self.detection_active
  det_last_black_line_state, \* self.last_black_line_state
  det_seed_detected,         \* self.seed_detected
  det_x,                     \* self.x
  det_debug_save,            \* self.debug_save_path is not None
  det_roi,                   \* self.roi
  det_actual,                \* run()'s locals actual_roi_x/y/w/h (<<>> while unbound)
  det_detection_result,      \* emissions of detection_result
  det_error_occurred,        \* emissions of error_occurred
  det_status_stop,           \* number of status_updated("检测线程停止") emissions
  det_frames,                \* number of frame_source() calls made by run()
  det_stops,                 \* number of external stop() calls
  det_arrivals,              \* history: false->true transitions of the line state
  det_infer_calls,           \* history: number of self.model(...) calls
  det_grid_seen,             \* history: an inference of the current grid returned boxes
  det_quiet,                 \* history: seconds since the run began or the line state last changed
  det_src_written,           \* history: pixels were written into an array frame_source() returned
  det_proc_parity,           \* history: flips at every call of process_roi
  \* ---- SpeedCalculationThread ----
  sp_pc,                     \* "init" | "started" | "loop" | "finished"
  sp_running,                \* self._running
  sp_crossing_timestamps,    \* self.crossing_timestamps (ms)
  sp_expected_marker_index,  \* self.expected_marker_index
  sp_time_limit,             \* self.time_limit (ms)
  sp_debug_ok,               \* self.debug_save_path is usable
  sp_start_time,             \* run()'s local start_time (ms)
  sp_now,                    \* what time.time() returns (ms)
  sp_calculation_complete,   \* emissions of calculation_complete, with their emit site
  sp_calculation_error,      \* emissions of calculation_error
  sp_status_manual,          \* number of "已手动停止" status emissions
  sp_stops,                  \* number of external stop() calls
  sp_rolled,                 \* history: some crossing of this run was rolled back
  sp_cross_parity,           \* history: flips each time a crossing is handled
  sp_roi,                    \* <<self.roi_x, self.roi_y, self.roi_w, self.roi_h>>
  sp_roi_skipped,            \* history: an iteration found the clamped ROI empty
  \* ---- ControlThread and the control connection ----
  ctl_callers,               \* the threads that call send_command / stop
  ctl_pc,                    \* per caller: "idle" | "write" | "read"
  ctl_cmd,                   \* per caller: command_char of its call
  ctl_connected,             \* self._connected
  ctl_socket,                \* self._socket (0 is None, else a socket id)
  ctl_light_on,              \* self._light_on
  ctl_socks,                 \* per socket id: bytes in flight and close flags
  ctl_nsock,                 \* number of socket objects created
  ctl_command_sent,          \* emissions of command_sent
  ctl_connection_status,     \* emissions of connection_status
  ctl_light_state_changed,   \* emissions of light_state_changed
  ctl_connection_error,      \* number of connection_error emissions
  ctl_connects,              \* history: number of connect() attempts
  ctl_calls,                 \* history: number of send_command calls
  ctl_last_cmd,              \* history: argument of the last send_command call
  ctl_last_return,           \* history: return value of the last send_command call
  ctl_written,               \* history: number of bytes handed to sendall
  ctl_stops,                 \* history: number of stop() calls
  ctl_last_read,             \* history: what the last recv(1) gave, to whom,
                             \* and whose bytes the device answered with it
  \* ---- CameraApp ----
  app_video,                 \* self.video_thread: "none" | "running"
  app_frame,                 \* video_display.current_frame is not None
  app_speed_thread,          \* self.speed_thread (0 is None, else a worker id)
  app_detection_thread,      \* self.detection_thread (0 is None, else a worker id)
  app_sp,                    \* per SpeedCalculationThread created: its state
  app_det,                   \* per DetectionThread created: its state ("quota": total_count >= count)
  app_nsp,                   \* number of SpeedCalculationThreads created
  app_ndet,                  \* number of DetectionThreads created
  app_queue,                 \* worker signals not yet handled by the GUI thread
  app_raised,                \* history: a slot of CameraApp raised an exception
  app_closed,                \* on_close has accepted the close event
  \* ---- VideoStreamThread and CameraDisplay ----
  vid_pc,                    \* "none" | "started" | "loop" | "finished"
  vid_is_running,            \* self._is_running
  vid_openable,              \* what cap.isOpened() returns for this thread
  vid_reads,                 \* number of cap.read() calls of this thread
  vid_status,                \* status_signal emissions of this thread's run(), by type
  vid_released,              \* cap.release() was called by this thread
  vid_gui,                   \* GUI thread: "idle" | "waiting" (inside video_thread.stop())
  vid_queue,                 \* frame_ready / error status signals waiting for the GUI thread
  cam_connected,             \* video_display._connected
  cam_current_frame,         \* video_display.current_frame is not None
  cam_arrived,               \* history: update_frame was called since the last connect
  \* ---- ROI clamping on its own ----
  cl_roi,                    \* a ROI <<x, y, w, h>> as handed to a thread
  cl_size,                   \* a frame size <<height, width>>
  cl_once,                   \* the clamped ROI (<<>> before the clamping)
  cl_twice,                  \* the clamped ROI clamped again (<<>> before that)
  \* ---- CameraApp and its ControlThread ----
  ac_video,                  \* self.video_thread: "none" | "running" | "ended" (run() has returned)
  ac_control_thread,         \* self.control_thread is not None
  ac_created,                \* number of ControlThread objects built
  ac_light_state,            \* self.light_state
  ac_log                     \* the "not connected" errors logged by the two buttons

det_vars == <<det_pc, det_running, det_total_count, det_detection_active,
              det_last_black_line_state, det_seed_detected, det_x,
              det_debug_save, det_roi, det_actual, det_detection_result,
              det_error_occurred, det_status_stop, det_frames, det_stops,
              det_arrivals, det_infer_calls, det_grid_seen, det_quiet,
              det_src_written, det_proc_parity>>

sp_vars == <<sp_pc, sp_running, sp_crossing_timestamps,
             sp_expected_marker_index, sp_time_limit, sp_debug_ok,
             sp_start_time, sp_now, sp_calculation_complete,
             sp_calculation_error, sp_status_manual, sp_stops, sp_rolled,
             sp_cross_parity, sp_roi, sp_roi_skipped>>

ctl_vars == <<ctl_callers, ctl_pc, ctl_cmd, ctl_connected, ctl_socket,
              ctl_light_on, ctl_socks, ctl_nsock, ctl_command_sent,
              ctl_connection_status, ctl_light_state_changed,
              ctl_connection_error, ctl_connects, ctl_calls, ctl_last_cmd,
              ctl_last_return, ctl_written, ctl_stops, ctl_last_read>>

app_vars == <<app_video, app_frame, app_speed_thread, app_detection_thread,
              app_sp, app_det, app_nsp, app_ndet, app_queue, app_raised,
              app_closed>>

vid_vars == <<vid_pc, vid_is_running, vid_openable, vid_reads, vid_status,
              vid_released, vid_gui, vid_queue, cam_connected,
              cam_current_frame, cam_arrived>>

cl_vars == <<cl_roi, cl_size, cl_once, cl_twice>>

ac_vars == <<ac_video, ac_control_thread, ac_created, ac_light_state, ac_log>>

vars == <<det_vars, sp_vars, ctl_vars, app_vars, vid_vars, cl_vars, ac_vars>>

\* What an action of one component leaves alone
DetOnly == UNCHANGED <<sp_vars, ctl_vars, app_vars, vid_vars, cl_vars, ac_vars>>
SpOnly == UNCHANGED <<det_vars, ctl_vars, app_vars, vid_vars, cl_vars, ac_vars>>
CtlOnly == UNCHANGED <<det_vars, sp_vars, app_vars, vid_vars, cl_vars, ac_vars>>
AppOnly == UNCHANGED <<det_vars, sp_vars, ctl_vars, vid_vars, cl_vars, ac_vars>>
VidOnly == UNCHANGED <<det_vars, sp_vars, ctl_vars, app_vars, cl_vars, ac_vars>>
ClampOnly == UNCHANGED <<det_vars, sp_vars, ctl_vars, app_vars, vid_vars, ac_vars>>
AcOnly == UNCHANGED <<det_vars, sp_vars, app_vars, vid_vars, cl_vars>>

None == "None"

Max(a, b) == IF a >= b THEN a ELSE b
Min(a, b) == IF a <= b THEN a ELSE b

\* ---------------------------------------------------------------------
\* Bounds of the model
\* ---------------------------------------------------------------------
MaxFrames == 6      \* frame_source() calls of one DetectionThread run
MaxStops == 2       \* external stop() calls on one thread
MaxClock == 12      \* clock readings (ms) explored before and after the long wait
MaxCalls == 3       \* send_command calls on one ControlThread
MaxThreads == 2     \* worker threads of one kind created by CameraApp
MaxQueue == 2       \* worker signals waiting for the GUI thread
MaxQuiet == 6       \* seconds without a line event followed in a DetectionThread run
MaxReads == 3       \* cap.read() calls of one VideoStreamThread
MaxDim == 3         \* largest frame side and ROI coordinate of the clamping runs

\* ---------------------------------------------------------------------
\* DetectionThread
\* ---------------------------------------------------------------------
DetCount == 2       \* self.count

\* Frame sizes <<height, width>> and ROIs <<x, y, w, h>> of the runs explored.
FrameSizes == {<<8, 8>>, <<4, 4>>}
DetRois == {<<1, 1, 4, 4>>, <<5, 5, 4, 4>>}

\* A frame as DetectionThread sees it: what detect_black_line returns on
\* its ROI, how many boxes the model finds, whether the model call raises.
DetFrames == [line : BOOLEAN, boxes : 0..1, raises : BOOLEAN, size : FrameSizes]

\* ClampRoi where width and height are cut against the unclamped origin
ClampRoi_FromRawOrigin(roi, size) ==
  LET ax == Max(0, roi[1])
      ay == Max(0, roi[2])
  IN  <<ax, ay, Min(roi[3], size[2] - roi[1]), Min(roi[4], size[1] - roi[2])>>

\* ROI clamping of run(): <<actual_roi_x, actual_roi_y, actual_roi_w, actual_roi_h>>
ClampRoi(roi, size) ==
  LET ax == Max(0, roi[1])
      ay == Max(0, roi[2])
  IN  <<ax, ay, Min(roi[3], size[2] - ax), Min(roi[4], size[1] - ay)>>

RoiInvalid(a) == a[3] <= 0 \/ a[4] <= 0

\* self.model(roi, ...) returns one Results object per input image.
ModelResults(f) == << [boxes |-> f.boxes] >>

\* The loop "for result in results: if len(results) > 0: seed_detected = True"
SeedFromResults(results) == \E i \in 1..Len(results) : Len(results) > 0

\* InferGate where the model is called whether or not detection is active
InferGate_Always(active, x) == x = FALSE

\* process_roi: "if self.detection_active and self.x == False"
InferGate(active, x) == active /\ x = FALSE

\* ProcessRoi where a departure of the line counts like its arrival
ProcessRoi_CountsDepartures(f, roiEmpty, x) ==
  LET cur     == f.line
      changed == ~roiEmpty /\ cur # det_last_black_line_state
      arrival == changed
      active  == IF arrival THEN TRUE ELSE det_detection_active
      total   == IF arrival THEN det_total_count + 1 ELSE det_total_count
      last    == IF changed THEN cur ELSE det_last_black_line_state
      infer   == ~roiEmpty /\ InferGate(active, x)
      raised  == roiEmpty \/ (infer /\ f.raises)
      seed    == IF roiEmpty THEN det_seed_detected
                 ELSE IF infer /\ ~f.raises THEN SeedFromResults(ModelResults(f))
                 ELSE FALSE
  IN  [active |-> active, total |-> total, last |-> last, arrival |-> arrival,
       changed |-> changed,
       infer |-> infer, raised |-> raised, seed |-> seed,
       ret |-> IF raised THEN FALSE ELSE seed]

\* process_roi: the record of the fields it leaves behind and its return value.
\* roiEmpty: the slice handed in is empty, so detect_black_line raises.
ProcessRoi(f, roiEmpty, x) ==
  LET cur     == f.line
      changed == ~roiEmpty /\ cur # det_last_black_line_state
      arrival == changed /\ cur
      active  == IF arrival THEN TRUE ELSE det_detection_active
      total   == IF arrival THEN det_total_count + 1 ELSE det_total_count
      last    == IF changed THEN cur ELSE det_last_black_line_state
      infer   == ~roiEmpty /\ InferGate(active, x)
      raised  == roiEmpty \/ (infer /\ f.raises)
      seed    == IF roiEmpty THEN det_seed_detected
                 ELSE IF infer /\ ~f.raises THEN SeedFromResults(ModelResults(f))
                 ELSE FALSE
  IN  [active |-> active, total |-> total, last |-> last, arrival |-> arrival,
       changed |-> changed,
       infer |-> infer, raised |-> raised, seed |-> seed,
       ret |-> IF raised THEN FALSE ELSE seed]

\* QThread.start()
DetStart ==
  /\ DetOnly
  /\ det_pc = "init"
  /\ det_pc' = "started"
  /\ UNCHANGED <<det_running, det_total_count, det_detection_active,
                 det_last_black_line_state, det_seed_detected, det_x,
                 det_debug_save, det_roi, det_actual, det_detection_result,
                 det_error_occurred, det_status_stop, det_frames, det_stops,
                 det_arrivals, det_infer_calls, det_grid_seen, det_quiet, det_src_written, det_proc_parity>>

\* run(): the statements before the loop
DetRunBegin ==
  /\ DetOnly
  /\ det_pc = "started"
  /\ det_pc' = "loop"
  /\ det_running' = TRUE
  /\ UNCHANGED <<det_total_count, det_detection_active,
                 det_last_black_line_state, det_seed_detected, det_x,
                 det_debug_save, det_roi, det_actual, det_detection_result,
                 det_error_occurred, det_status_stop, det_frames, det_stops,
                 det_arrivals, det_infer_calls, det_grid_seen, det_quiet, det_src_written, det_proc_parity>>

\* stop(), called from outside the thread; CameraApp starts a thread right
\* after building it, so every stop() finds it started
DetStop ==
  /\ DetOnly
  /\ det_pc \in {"started", "loop"}
  /\ det_stops < MaxStops
  /\ det_stops' = det_stops + 1
  /\ det_running' = FALSE
  /\ det_status_stop' = det_status_stop + 1
  /\ UNCHANGED <<det_pc, det_total_count, det_detection_active,
                 det_last_black_line_state, det_seed_detected, det_x,
                 det_debug_save, det_roi, det_actual, det_detection_result,
                 det_error_occurred, det_frames, det_arrivals,
                 det_infer_calls, det_grid_seen, det_quiet, det_src_written, det_proc_parity>>

\* run(): "while self.running" is false; the statement after the loop
DetLoopExit ==
  /\ DetOnly
  /\ det_pc = "loop"
  /\ ~det_running
  /\ det_pc' = "finished"
  /\ det_status_stop' = det_status_stop + 1
  /\ UNCHANGED <<det_running, det_total_count, det_detection_active,
                 det_last_black_line_state, det_seed_detected, det_x,
                 det_debug_save, det_roi, det_actual, det_detection_result,
                 det_error_occurred, det_frames, det_stops, det_arrivals,
                 det_infer_calls, det_grid_seen, det_quiet, det_src_written, det_proc_parity>>

\* DetProcessFrame where a raising process_roi does not call stop()
DetProcessFrame_KeepsRunning(f, a) ==
  LET r == ProcessRoi(f, FALSE, det_x)
      saved == det_debug_save /\ r.ret
  IN  /\ det_x' = det_x
      /\ det_actual' = a
      /\ det_detection_active' = r.active
      /\ det_total_count' = r.total
      /\ det_last_black_line_state' = r.last
      /\ det_seed_detected' = IF saved THEN FALSE ELSE r.ret
      /\ det_running' = det_running
      /\ det_status_stop' = det_status_stop
      /\ det_error_occurred' = IF r.raised THEN Append(det_error_occurred, "infer")
                               ELSE det_error_occurred
      /\ det_arrivals' = IF r.arrival THEN det_arrivals + 1 ELSE det_arrivals
      /\ det_infer_calls' = IF r.infer THEN det_infer_calls + 1 ELSE det_infer_calls
      /\ det_grid_seen' = IF r.infer /\ ~f.raises /\ f.boxes > 0 THEN TRUE
                          ELSE IF r.arrival THEN FALSE ELSE det_grid_seen
      /\ det_quiet' = IF r.changed THEN 0 ELSE det_quiet
      \* roi is a view of frame: the boxes and labels drawn on roi land
      \* in the array frame_source() returned
      /\ det_src_written' = (det_src_written
                               \/ (r.infer /\ ~f.raises /\ f.boxes > 0))
      /\ det_proc_parity' = 1 - det_proc_parity
      /\ UNCHANGED det_detection_result

\* The part of a loop iteration that follows a successful ROI crop
DetProcessFrame(f, a) ==
  LET r == ProcessRoi(f, FALSE, det_x)
      saved == det_debug_save /\ r.ret
  IN  /\ det_x' = det_x
      /\ det_actual' = a
      /\ det_detection_active' = r.active
      /\ det_total_count' = r.total
      /\ det_last_black_line_state' = r.last
      /\ det_seed_detected' = IF saved THEN FALSE ELSE r.ret
      /\ det_running' = IF r.raised THEN FALSE ELSE det_running
      /\ det_status_stop' = IF r.raised THEN det_status_stop + 1 ELSE det_status_stop
      /\ det_error_occurred' = IF r.raised THEN Append(det_error_occurred, "infer")
                               ELSE det_error_occurred
      /\ det_arrivals' = IF r.arrival THEN det_arrivals + 1 ELSE det_arrivals
      /\ det_infer_calls' = IF r.infer THEN det_infer_calls + 1 ELSE det_infer_calls
      /\ det_grid_seen' = IF r.infer /\ ~f.raises /\ f.boxes > 0 THEN TRUE
                          ELSE IF r.arrival THEN FALSE ELSE det_grid_seen
      /\ det_quiet' = IF r.changed THEN 0 ELSE det_quiet
      \* roi is a view of frame: the boxes and labels drawn on roi land
      \* in the array frame_source() returned
      /\ det_src_written' = (det_src_written
                               \/ (r.infer /\ ~f.raises /\ f.boxes > 0))
      /\ det_proc_parity' = 1 - det_proc_parity
      /\ UNCHANGED det_detection_result

\* DetIterate where an invalid ROI ends the run like a failed inference
DetIterate_RoiErrorStops ==
  /\ DetOnly
  /\ det_pc = "loop"
  /\ det_running
  /\ det_total_count < DetCount
  /\ det_frames < MaxFrames
  /\ det_frames' = det_frames + 1
  /\ \/ \* frame_source() returned None: nothing is queued or processed
        UNCHANGED <<det_running, det_total_count, det_detection_active,
                    det_last_black_line_state, det_seed_detected, det_x,
                    det_actual, det_detection_result, det_error_occurred,
                    det_status_stop, det_arrivals, det_infer_calls,
                    det_grid_seen, det_quiet, det_src_written, det_proc_parity>>
     \/ \E f \in DetFrames :
          LET a == ClampRoi(det_roi, f.size) IN
            IF RoiInvalid(a)
            THEN /\ det_actual' = a
                 /\ det_error_occurred' = Append(det_error_occurred, "roi")
                 /\ det_running' = FALSE
                 /\ UNCHANGED <<det_total_count,
                                det_detection_active, det_last_black_line_state,
                                det_seed_detected, det_x, det_detection_result,
                                det_status_stop, det_arrivals, det_infer_calls,
                                det_grid_seen, det_quiet, det_src_written, det_proc_parity>>
            ELSE DetProcessFrame(f, a)
  /\ UNCHANGED <<det_pc, det_debug_save, det_roi, det_stops>>

\* run(): one iteration of the loop below the quota check
DetIterate ==
  /\ DetOnly
  /\ det_pc = "loop"
  /\ det_running
  /\ det_total_count < DetCount
  /\ det_frames < MaxFrames
  /\ det_frames' = det_frames + 1
  /\ \/ \* frame_source() returned None: nothing is queued or processed
        UNCHANGED <<det_running, det_total_count, det_detection_active,
                    det_last_black_line_state, det_seed_detected, det_x,
                    det_actual, det_detection_result, det_error_occurred,
                    det_status_stop, det_arrivals, det_infer_calls,
                    det_grid_seen, det_quiet, det_src_written, det_proc_parity>>
     \/ \E f \in DetFrames :
          LET a == ClampRoi(det_roi, f.size) IN
            IF RoiInvalid(a)
            THEN /\ det_actual' = a
                 /\ det_error_occurred' = Append(det_error_occurred, "roi")
                 /\ UNCHANGED <<det_running, det_total_count,
                                det_detection_active, det_last_black_line_state,
                                det_seed_detected, det_x, det_detection_result,
                                det_status_stop, det_arrivals, det_infer_calls,
                                det_grid_seen, det_quiet, det_src_written, det_proc_parity>>
            ELSE DetProcessFrame(f, a)
  /\ UNCHANGED <<det_pc, det_debug_save, det_roi, det_stops>>

\* run(): the iteration that finds total_count >= count
DetFinalPass ==
  /\ DetOnly
  /\ det_pc = "loop"
  /\ det_running
  /\ det_total_count >= DetCount
  /\ IF det_last_black_line_state
     THEN /\ det_frames' = det_frames + 1
          /\ det_x' = TRUE
          /\ \/ \* frame_source() returned None: cv2.rectangle(None, ...)
                \* raises outside any try
                /\ det_pc' = "crashed"
                /\ UNCHANGED <<det_running, det_total_count,
                               det_detection_active,
                               det_last_black_line_state, det_seed_detected,
                               det_error_occurred, det_status_stop,
                               det_arrivals, det_infer_calls, det_grid_seen, det_quiet, det_src_written, det_proc_parity>>
             \/ \E f \in DetFrames :
                  LET empty == det_actual[1] >= f.size[2] \/ det_actual[2] >= f.size[1]
                      r == ProcessRoi(f, empty, TRUE)
                  IN  /\ det_pc' = "finished"
                      /\ det_detection_active' = r.active
                      /\ det_total_count' = r.total
                      /\ det_last_black_line_state' = r.last
                      /\ det_seed_detected' = r.seed
                      /\ det_running' = FALSE
                      /\ det_status_stop' = det_status_stop + 2
                                             + (IF r.raised THEN 1 ELSE 0)
                      /\ det_error_occurred' =
                           IF r.raised THEN Append(det_error_occurred, "infer")
                           ELSE det_error_occurred
                      /\ det_arrivals' = IF r.arrival THEN det_arrivals + 1
                                         ELSE det_arrivals
                      /\ det_infer_calls' = IF r.infer THEN det_infer_calls + 1
                                            ELSE det_infer_calls
                      /\ det_grid_seen' = det_grid_seen
                      /\ det_quiet' = IF r.changed THEN 0 ELSE det_quiet
                      \* cv2.rectangle(frame, ...) draws on the array
                      \* frame_source() returned, where the ROI's
                      \* outline lies inside it
                      /\ det_src_written' =
                           (det_src_written
                              \/ (det_roi[1] < f.size[2] /\ det_roi[2] < f.size[1]))
                      /\ det_proc_parity' = 1 - det_proc_parity
     ELSE /\ det_pc' = "finished"
          /\ det_running' = FALSE
          /\ det_status_stop' = det_status_stop + 2
          /\ UNCHANGED <<det_frames, det_x, det_total_count,
                         det_detection_active, det_last_black_line_state,
                         det_seed_detected, det_error_occurred, det_arrivals,
                         det_infer_calls, det_grid_seen, det_quiet, det_src_written, det_proc_parity>>
  /\ UNCHANGED <<det_debug_save, det_roi, det_actual, det_detection_result,
                 det_stops>>

\* time passes while run() is in its loop (the sleeps of an iteration)
DetTick ==
  /\ DetOnly
  /\ det_pc = "loop"
  /\ det_quiet < MaxQuiet
  /\ det_quiet' = det_quiet + 1
  /\ UNCHANGED <<det_pc, det_running, det_total_count, det_detection_active,
                 det_last_black_line_state, det_seed_detected, det_x,
                 det_debug_save, det_roi, det_actual, det_detection_result,
                 det_error_occurred, det_status_stop, det_frames, det_stops,
                 det_arrivals, det_infer_calls, det_grid_seen,
                 det_src_written, det_proc_parity>>

\* DetectionThread.__init__
DetInit ==
  /\ det_pc = "init"
  /\ det_running = FALSE
  /\ det_total_count = 0
  /\ det_detection_active = FALSE
  /\ det_last_black_line_state = FALSE
  /\ det_seed_detected = FALSE
  /\ det_x = FALSE
  /\ det_debug_save \in BOOLEAN
  /\ det_roi \in DetRois
  /\ det_actual = <<>>
  /\ det_detection_result = <<>>
  /\ det_error_occurred = <<>>
  /\ det_status_stop = 0
  /\ det_frames = 0
  /\ det_stops = 0
  /\ det_arrivals = 0
  /\ det_infer_calls = 0
  /\ det_grid_seen = FALSE
  /\ det_quiet = 0
  /\ det_src_written = FALSE
  /\ det_proc_parity = 0

\* a constructed thread that is never started
DetIdle ==
  /\ det_pc = "init"
  /\ det_running = FALSE
  /\ det_total_count = 0
  /\ det_detection_active = FALSE
  /\ det_last_black_line_state = FALSE
  /\ det_seed_detected = FALSE
  /\ det_x = FALSE
  /\ det_debug_save = TRUE
  /\ det_roi = <<1, 1, 4, 4>>
  /\ det_actual = <<>>
  /\ det_detection_result = <<>>
  /\ det_error_occurred = <<>>
  /\ det_status_stop = 0
  /\ det_frames = 0
  /\ det_stops = 0
  /\ det_arrivals = 0
  /\ det_infer_calls = 0
  /\ det_grid_seen = FALSE
  /\ det_quiet = 0
  /\ det_src_written = FALSE
  /\ det_proc_parity = 0

\* ---------------------------------------------------------------------
\* Rational numbers <<numerator, denominator>> for the speed values
\* ---------------------------------------------------------------------
RECURSIVE GCD(_, _)
GCD(a, b) == IF b = 0 THEN a ELSE GCD(b, a % b)

RatNorm(q) ==
  LET g == GCD(IF q[1] < 0 THEN -q[1] ELSE q[1], q[2])
  IN  IF g = 0 THEN q ELSE <<q[1] \div g, q[2] \div g>>

RatAdd(p, q) == RatNorm(<<p[1] * q[2] + q[1] * p[2], p[2] * q[2]>>)

RatDivInt(q, n) == RatNorm(<<q[1], q[2] * n>>)

RECURSIVE RatSum(_)
RatSum(qs) == IF qs = <<>> THEN <<0, 1>> ELSE RatAdd(qs[1], RatSum(Tail(qs)))

\* ---------------------------------------------------------------------
\* SpeedCalculationThread (times in ms, distances in mm, speeds in m/s)
\* ---------------------------------------------------------------------
MARKER_DISTANCE_MM == 40
NUM_WHITE_MARKERS == 11
TOTAL_MARKERS == 1 + NUM_WHITE_MARKERS
SpTimeoutMs == 45000
SpAvgMinDiffMs == 1

\* Values of the time_limit constructor argument explored (ms)
SpTimeLimits == {0, 1, 2}

\* ROIs <<x, y, w, h>> of the runs explored: one inside every frame of
\* FrameSizes, one outside every frame
SpRois == {<<1, 1, 4, 4>>, <<9, 9, 4, 4>>}

\* ButLast where pop() leaves the list as it is
ButLast_KeepsLast(seq) == seq

\* crossing_timestamps.pop(): the list without its last element
ButLast(seq) == SubSeq(seq, 1, Len(seq) - 1)

\* PairSpeed with the quotient inverted: time_diff / MARKER_DISTANCE_M
PairSpeed_Inverted(time_diff) == RatNorm(<<time_diff, MARKER_DISTANCE_MM>>)

\* MARKER_DISTANCE_M / time_diff
PairSpeed(time_diff) == RatNorm(<<MARKER_DISTANCE_MM, time_diff>>)

\* "if time_diff > self.time_limit"
ValidDiff(time_diff) == time_diff > sp_time_limit

\* the list comprehension of the final handling
AvgSpeeds(ts) ==
  LET F[i \in 1..Len(ts)] ==
        IF i = 1 THEN <<>>
        ELSE IF ts[i] - ts[i-1] > SpAvgMinDiffMs
             THEN Append(F[i-1], PairSpeed(ts[i] - ts[i-1]))
             ELSE F[i-1]
  IN  F[Len(ts)]

\* sum(speeds) / len(speeds)
Mean(speeds) == RatDivInt(RatSum(speeds), Len(speeds))

\* The statements after the loop, given the values the loop leaves;
\* yields the emissions they add.
SpFinal(running, expected, ts, complete, manual) ==
  IF running /\ expected < TOTAL_MARKERS
  THEN [complete |-> complete, manual |-> manual + 1]
  ELSE IF expected = TOTAL_MARKERS /\ Len(ts) >= 2
          /\ Len(ts) = TOTAL_MARKERS /\ AvgSpeeds(ts) # <<>>
  THEN [complete |-> Append(complete, [site |-> "avg", v |-> Mean(AvgSpeeds(ts))]),
        manual |-> manual]
  ELSE [complete |-> complete, manual |-> manual]

\* QThread.start()
SpStart ==
  /\ SpOnly
  /\ sp_pc = "init"
  /\ sp_pc' = "started"
  /\ UNCHANGED <<sp_running, sp_crossing_timestamps, sp_expected_marker_index,
                 sp_time_limit, sp_debug_ok, sp_start_time, sp_now,
                 sp_calculation_complete, sp_calculation_error,
                 sp_status_manual, sp_stops, sp_rolled, sp_cross_parity, sp_roi, sp_roi_skipped>>

\* run(): the statements before the loop
SpRunBegin ==
  /\ SpOnly
  /\ sp_pc = "started"
  /\ IF ~sp_debug_ok
     THEN /\ sp_pc' = "finished"
          /\ sp_calculation_error' = Append(sp_calculation_error, [kind |-> "nodebug", n |-> 0])
          /\ UNCHANGED <<sp_running, sp_crossing_timestamps,
                         sp_expected_marker_index, sp_start_time>>
     ELSE /\ sp_pc' = "loop"
          /\ sp_running' = TRUE
          /\ sp_crossing_timestamps' = <<>>
          /\ sp_expected_marker_index' = 0
          /\ sp_start_time' = sp_now
          /\ UNCHANGED sp_calculation_error
  /\ UNCHANGED <<sp_time_limit, sp_debug_ok, sp_now, sp_calculation_complete,
                 sp_status_manual, sp_stops, sp_rolled, sp_cross_parity, sp_roi, sp_roi_skipped>>

\* stop(), called from outside the thread; CameraApp starts a thread right
\* after building it, so every stop() finds it started
SpStop ==
  /\ SpOnly
  /\ sp_pc \in {"started", "loop"}
  /\ sp_stops < MaxStops
  /\ sp_stops' = sp_stops + 1
  /\ sp_running' = FALSE
  /\ UNCHANGED <<sp_pc, sp_crossing_timestamps, sp_expected_marker_index,
                 sp_time_limit, sp_debug_ok, sp_start_time, sp_now,
                 sp_calculation_complete, sp_calculation_error,
                 sp_status_manual, sp_rolled, sp_cross_parity, sp_roi, sp_roi_skipped>>

\* time.time() moves on between two readings: by 1 ms, or by the length of
\* the timeout
SpTick ==
  /\ SpOnly
  /\ sp_pc = "loop"
  /\ \E d \in {1, SpTimeoutMs} :
       /\ IF d = 1 THEN (sp_now % SpTimeoutMs) < MaxClock ELSE sp_now < SpTimeoutMs
       /\ sp_now' = sp_now + d
  /\ UNCHANGED <<sp_pc, sp_running, sp_crossing_timestamps,
                 sp_expected_marker_index, sp_time_limit, sp_debug_ok,
                 sp_start_time, sp_calculation_complete, sp_calculation_error,
                 sp_status_manual, sp_stops, sp_rolled, sp_cross_parity, sp_roi, sp_roi_skipped>>

\* SpLoopExit where the final handling takes the run for a running one
SpLoopExit_TakesRunForRunning ==
  /\ SpOnly
  /\ sp_pc = "loop"
  /\ ~(sp_running /\ sp_expected_marker_index < TOTAL_MARKERS)
  /\ LET fin == SpFinal(TRUE, sp_expected_marker_index,
                        sp_crossing_timestamps, sp_calculation_complete,
                        sp_status_manual)
     IN  /\ sp_calculation_complete' = fin.complete
         /\ sp_status_manual' = fin.manual
  /\ sp_pc' = "finished"
  /\ sp_running' = FALSE
  /\ UNCHANGED <<sp_crossing_timestamps, sp_expected_marker_index,
                 sp_time_limit, sp_debug_ok, sp_start_time, sp_now,
                 sp_calculation_error, sp_stops, sp_rolled, sp_cross_parity, sp_roi, sp_roi_skipped>>

\* run(): the loop condition is false; the final handling
SpLoopExit ==
  /\ SpOnly
  /\ sp_pc = "loop"
  /\ ~(sp_running /\ sp_expected_marker_index < TOTAL_MARKERS)
  /\ LET fin == SpFinal(sp_running, sp_expected_marker_index,
                        sp_crossing_timestamps, sp_calculation_complete,
                        sp_status_manual)
     IN  /\ sp_calculation_complete' = fin.complete
         /\ sp_status_manual' = fin.manual
  /\ sp_pc' = "finished"
  /\ sp_running' = FALSE
  /\ UNCHANGED <<sp_crossing_timestamps, sp_expected_marker_index,
                 sp_time_limit, sp_debug_ok, sp_start_time, sp_now,
                 sp_calculation_error, sp_stops, sp_rolled, sp_cross_parity, sp_roi, sp_roi_skipped>>

\* SpTimeout without the calculation_error emission
SpTimeout_Silent ==
  /\ SpOnly
  /\ sp_pc = "loop"
  /\ sp_running /\ sp_expected_marker_index < TOTAL_MARKERS
  /\ sp_now - sp_start_time > SpTimeoutMs
  /\ LET fin == SpFinal(FALSE, sp_expected_marker_index,
                        sp_crossing_timestamps, sp_calculation_complete,
                        sp_status_manual)
     IN  /\ sp_calculation_complete' = fin.complete
         /\ sp_status_manual' = fin.manual
  /\ sp_pc' = "finished"
  /\ sp_running' = FALSE
  /\ UNCHANGED <<sp_crossing_timestamps, sp_expected_marker_index,
                 sp_time_limit, sp_debug_ok, sp_start_time, sp_now,
                 sp_calculation_error, sp_stops, sp_rolled, sp_cross_parity, sp_roi, sp_roi_skipped>>

\* run(): the timeout branch at the top of an iteration, then the final handling
SpTimeout ==
  /\ SpOnly
  /\ sp_pc = "loop"
  /\ sp_running /\ sp_expected_marker_index < TOTAL_MARKERS
  /\ sp_now - sp_start_time > SpTimeoutMs
  /\ sp_calculation_error' =
       Append(sp_calculation_error,
              IF sp_crossing_timestamps = <<>>
              THEN [kind |-> "timeout_none", n |-> 0]
              ELSE [kind |-> "timeout_partial", n |-> Len(sp_crossing_timestamps)])
  /\ LET fin == SpFinal(FALSE, sp_expected_marker_index,
                        sp_crossing_timestamps, sp_calculation_complete,
                        sp_status_manual)
     IN  /\ sp_calculation_complete' = fin.complete
         /\ sp_status_manual' = fin.manual
  /\ sp_pc' = "finished"
  /\ sp_running' = FALSE
  /\ UNCHANGED <<sp_crossing_timestamps, sp_expected_marker_index,
                 sp_time_limit, sp_debug_ok, sp_start_time, sp_now,
                 sp_stops, sp_rolled, sp_cross_parity, sp_roi, sp_roi_skipped>>

\* SpCrossing without the pop() and the index decrement of the else branch
SpCrossing_NoPop(now) ==
  LET ts1   == Append(sp_crossing_timestamps, now)
      two   == Len(ts1) >= 2
      diff  == IF two THEN ts1[Len(ts1)] - ts1[Len(ts1) - 1] ELSE 0
      emit  == two /\ ValidDiff(diff)
      back  == two /\ ~ValidDiff(diff)
      exp2  == sp_expected_marker_index + 1
      run2  == IF exp2 < TOTAL_MARKERS THEN sp_running ELSE FALSE
      comp2 == IF emit THEN Append(sp_calculation_complete,
                                   [site |-> "pair", v |-> PairSpeed(diff)])
               ELSE sp_calculation_complete
  IN  [ts |-> ts1, expected |-> exp2, running |-> run2, complete |-> comp2,
       back |-> back]

\* run(): the handling of a contour whose centroid lies on the reference
\* line, read at clock value now
SpCrossing(now) ==
  LET ts1   == Append(sp_crossing_timestamps, now)
      two   == Len(ts1) >= 2
      diff  == IF two THEN ts1[Len(ts1)] - ts1[Len(ts1) - 1] ELSE 0
      emit  == two /\ ValidDiff(diff)
      back  == two /\ ~ValidDiff(diff)
      ts2   == IF back THEN ButLast(ts1) ELSE ts1
      exp2  == (IF back THEN sp_expected_marker_index - 1
                ELSE sp_expected_marker_index) + 1
      run2  == IF exp2 < TOTAL_MARKERS THEN sp_running ELSE FALSE
      comp2 == IF emit THEN Append(sp_calculation_complete,
                                   [site |-> "pair", v |-> PairSpeed(diff)])
               ELSE sp_calculation_complete
  IN  [ts |-> ts2, expected |-> exp2, running |-> run2, complete |-> comp2,
       back |-> back]

\* run(): one iteration of the loop that gets past the timeout check
SpIterate ==
  /\ SpOnly
  /\ sp_pc = "loop"
  /\ sp_running /\ sp_expected_marker_index < TOTAL_MARKERS
  /\ ~(sp_now - sp_start_time > SpTimeoutMs)
  /\ \/ \* frame_source() returned None: sleep, continue
        UNCHANGED <<sp_pc, sp_running, sp_crossing_timestamps,
                    sp_expected_marker_index, sp_calculation_complete,
                    sp_status_manual, sp_rolled, sp_cross_parity,
                    sp_roi_skipped>>
     \/ \E size \in FrameSizes :
          IF RoiInvalid(ClampRoi(sp_roi, size))
          THEN \* "if actual_roi_w <= 0 or actual_roi_h <= 0": sleep, continue
               /\ sp_roi_skipped' = TRUE
               /\ UNCHANGED <<sp_pc, sp_running, sp_crossing_timestamps,
                              sp_expected_marker_index,
                              sp_calculation_complete, sp_status_manual,
                              sp_rolled, sp_cross_parity>>
          ELSE \/ \* no contour lies on the reference line
                  UNCHANGED <<sp_pc, sp_running, sp_crossing_timestamps,
                              sp_expected_marker_index,
                              sp_calculation_complete, sp_status_manual,
                              sp_rolled, sp_cross_parity, sp_roi_skipped>>
               \/ LET c == SpCrossing(sp_now) IN
                    /\ sp_crossing_timestamps' = c.ts
                    /\ sp_expected_marker_index' = c.expected
                    /\ sp_rolled' = (sp_rolled \/ c.back)
                    /\ sp_cross_parity' = 1 - sp_cross_parity
                    /\ UNCHANGED sp_roi_skipped
                    /\ IF c.running
                       THEN /\ sp_running' = TRUE
                            /\ sp_calculation_complete' = c.complete
                            /\ UNCHANGED <<sp_pc, sp_status_manual>>
                       ELSE \* "if not self._running: break", then the
                            \* final handling
                            LET fin == SpFinal(FALSE, c.expected, c.ts,
                                               c.complete, sp_status_manual)
                            IN  /\ sp_running' = FALSE
                                /\ sp_pc' = "finished"
                                /\ sp_calculation_complete' = fin.complete
                                /\ sp_status_manual' = fin.manual
  /\ UNCHANGED <<sp_time_limit, sp_debug_ok, sp_start_time, sp_now,
                 sp_calculation_error, sp_stops, sp_roi>>

\* SpeedCalculationThread.__init__
SpInit ==
  /\ sp_pc = "init"
  /\ sp_running = FALSE
  /\ sp_crossing_timestamps = <<>>
  /\ sp_expected_marker_index = 0
  /\ sp_time_limit \in SpTimeLimits
  /\ sp_debug_ok \in BOOLEAN
  /\ sp_start_time = 0
  /\ sp_now = 0
  /\ sp_calculation_complete = <<>>
  /\ sp_calculation_error = <<>>
  /\ sp_status_manual = 0
  /\ sp_stops = 0
  /\ sp_rolled = FALSE
  /\ sp_cross_parity = 0
  /\ sp_roi \in SpRois
  /\ sp_roi_skipped = FALSE

\* a constructed thread that is never started
SpIdle ==
  /\ sp_pc = "init"
  /\ sp_running = FALSE
  /\ sp_crossing_timestamps = <<>>
  /\ sp_expected_marker_index = 0
  /\ sp_time_limit = 0
  /\ sp_debug_ok = TRUE
  /\ sp_start_time = 0
  /\ sp_now = 0
  /\ sp_calculation_complete = <<>>
  /\ sp_calculation_error = <<>>
  /\ sp_status_manual = 0
  /\ sp_stops = 0
  /\ sp_rolled = FALSE
  /\ sp_cross_parity = 0
  /\ sp_roi = <<1, 1, 4, 4>>
  /\ sp_roi_skipped = FALSE

\* ---------------------------------------------------------------------
\* ControlThread and the device's control handler
\* ---------------------------------------------------------------------
Callers == {1, 2}

\* Characters handed to send_command in the runs explored
CmdChars == {"L", "l", "P", "3", "x"}

\* CtlAccepted without the membership test
CtlAccepted_Any(ch) == TRUE

\* "if command_char not in ('L', 'l', 'P')"
CtlAccepted(ch) == ch \in {"L", "l", "P"}

NewSock == [inq |-> <<>>, outq |-> <<>>, peer_closed |-> FALSE, closed |-> FALSE]

\* a socket after close(): what was in flight is dropped
ClosedSock == [inq |-> <<>>, outq |-> <<>>, peer_closed |-> TRUE, closed |-> TRUE]

\* CleanupSocket without the "if self._connected" test
CleanupSocket_AlwaysNotifies ==
  [socket |-> 0,
   connected |-> FALSE,
   socks |-> IF ctl_socket # 0
             THEN [ctl_socks EXCEPT ![ctl_socket] = ClosedSock]
             ELSE ctl_socks,
   status |-> Append(ctl_connection_status, FALSE)]

\* _cleanup_socket: the values it leaves in _socket, _connected, the
\* sockets and the connection_status emissions
CleanupSocket ==
  [socket |-> 0,
   connected |-> FALSE,
   socks |-> IF ctl_socket # 0
             THEN [ctl_socks EXCEPT ![ctl_socket] = ClosedSock]
             ELSE ctl_socks,
   status |-> IF ctl_connected THEN Append(ctl_connection_status, FALSE)
              ELSE ctl_connection_status]

\* CtlExcept without the call of _cleanup_socket
CtlExcept_NoCleanup(c) ==
  /\ UNCHANGED <<ctl_socket, ctl_connected, ctl_socks, ctl_connection_status>>
  /\ ctl_connection_error' = ctl_connection_error + 1
  /\ ctl_command_sent' = Append(ctl_command_sent, <<ctl_cmd[c], FALSE>>)
  /\ ctl_pc' = [ctl_pc EXCEPT ![c] = "idle"]

\* the "except Exception" branch of _process_command for caller c
CtlExcept(c) ==
  LET cl == CleanupSocket IN
  /\ ctl_socket' = cl.socket
  /\ ctl_connected' = cl.connected
  /\ ctl_socks' = cl.socks
  /\ ctl_connection_status' = cl.status
  /\ ctl_connection_error' = ctl_connection_error + 1
  /\ ctl_command_sent' = Append(ctl_command_sent, <<ctl_cmd[c], FALSE>>)
  /\ ctl_pc' = [ctl_pc EXCEPT ![c] = "idle"]

\* CtlReject where send_command returns True for a rejected character
CtlReject_ReturnsTrue(c, ch) ==
  /\ ~CtlAccepted(ch)
  /\ ctl_connection_error' = ctl_connection_error + 1
  /\ ctl_last_return' = TRUE
  /\ UNCHANGED <<ctl_pc, ctl_cmd, ctl_connected, ctl_socket, ctl_light_on,
                 ctl_socks, ctl_nsock, ctl_command_sent, ctl_connection_status,
                 ctl_light_state_changed, ctl_connects>>

\* send_command with a character it rejects
CtlReject(c, ch) ==
  /\ ~CtlAccepted(ch)
  /\ ctl_connection_error' = ctl_connection_error + 1
  /\ ctl_last_return' = FALSE
  /\ UNCHANGED <<ctl_pc, ctl_cmd, ctl_connected, ctl_socket, ctl_light_on,
                 ctl_socks, ctl_nsock, ctl_command_sent, ctl_connection_status,
                 ctl_light_state_changed, ctl_connects>>

\* send_command -> _process_command while connected: on to sendall
CtlProceed(c, ch) ==
  /\ CtlAccepted(ch)
  /\ ctl_connected
  /\ ctl_pc' = [ctl_pc EXCEPT ![c] = "write"]
  /\ ctl_cmd' = [ctl_cmd EXCEPT ![c] = ch]
  /\ ctl_last_return' = TRUE
  /\ UNCHANGED <<ctl_connected, ctl_socket, ctl_light_on, ctl_socks, ctl_nsock,
                 ctl_command_sent, ctl_connection_status,
                 ctl_light_state_changed, ctl_connection_error, ctl_connects>>

\* CtlConnectOk without connection_status.emit(True)
CtlConnectOk_Silent(c, ch) ==
  /\ CtlAccepted(ch)
  /\ ~ctl_connected
  /\ ctl_connects' = ctl_connects + 1
  /\ ctl_nsock' = ctl_nsock + 1
  /\ ctl_socket' = ctl_nsock + 1
  /\ ctl_socks' = [ctl_socks EXCEPT ![ctl_nsock + 1] = NewSock]
  /\ ctl_connected' = TRUE
  /\ ctl_connection_status' = ctl_connection_status
  /\ ctl_pc' = [ctl_pc EXCEPT ![c] = "write"]
  /\ ctl_cmd' = [ctl_cmd EXCEPT ![c] = ch]
  /\ ctl_last_return' = TRUE
  /\ UNCHANGED <<ctl_light_on, ctl_command_sent, ctl_light_state_changed,
                 ctl_connection_error>>

\* send_command -> _process_command -> _establish_connection succeeds
CtlConnectOk(c, ch) ==
  /\ CtlAccepted(ch)
  /\ ~ctl_connected
  /\ ctl_connects' = ctl_connects + 1
  /\ ctl_nsock' = ctl_nsock + 1
  /\ ctl_socket' = ctl_nsock + 1
  /\ ctl_socks' = [ctl_socks EXCEPT ![ctl_nsock + 1] = NewSock]
  /\ ctl_connected' = TRUE
  /\ ctl_connection_status' = Append(ctl_connection_status, TRUE)
  /\ ctl_pc' = [ctl_pc EXCEPT ![c] = "write"]
  /\ ctl_cmd' = [ctl_cmd EXCEPT ![c] = ch]
  /\ ctl_last_return' = TRUE
  /\ UNCHANGED <<ctl_light_on, ctl_command_sent, ctl_light_state_changed,
                 ctl_connection_error>>

\* CtlConnectFail without the early return of _process_command
CtlConnectFail_GoesOn(c, ch) ==
  /\ CtlAccepted(ch)
  /\ ~ctl_connected
  /\ ctl_connects' = ctl_connects + 1
  /\ LET cl == CleanupSocket IN
       /\ ctl_socket' = cl.socket
       /\ ctl_connected' = cl.connected
       /\ ctl_connection_status' = cl.status
  /\ ctl_connection_error' = ctl_connection_error + 1
  /\ ctl_pc' = [ctl_pc EXCEPT ![c] = "write"]
  /\ ctl_cmd' = [ctl_cmd EXCEPT ![c] = ch]
  /\ ctl_last_return' = TRUE
  /\ UNCHANGED <<ctl_command_sent, ctl_light_on, ctl_light_state_changed,
                 ctl_socks, ctl_nsock>>

\* send_command -> _process_command -> _establish_connection fails
CtlConnectFail(c, ch) ==
  /\ CtlAccepted(ch)
  /\ ~ctl_connected
  /\ ctl_connects' = ctl_connects + 1
  /\ LET cl == CleanupSocket IN
       \* the socket object just created is the one closed
       /\ ctl_socket' = cl.socket
       /\ ctl_connected' = cl.connected
       /\ ctl_connection_status' = cl.status
  /\ ctl_connection_error' = ctl_connection_error + 1
  /\ ctl_command_sent' = Append(ctl_command_sent, <<ch, FALSE>>)
  /\ ctl_cmd' = [ctl_cmd EXCEPT ![c] = ch]
  /\ ctl_last_return' = TRUE
  /\ UNCHANGED <<ctl_pc, ctl_light_on, ctl_light_state_changed, ctl_socks,
                 ctl_nsock>>

\* send_command(command_char), up to its first socket transfer
CtlSendCommand ==
  /\ CtlOnly
  /\ ctl_calls < MaxCalls
  /\ \E c \in ctl_callers, ch \in CmdChars :
       /\ ctl_pc[c] = "idle"
       /\ ctl_calls' = ctl_calls + 1
       /\ ctl_last_cmd' = ch
       /\ \/ CtlReject(c, ch)
          \/ CtlProceed(c, ch)
          \/ CtlConnectOk(c, ch)
          \/ CtlConnectFail(c, ch)
  /\ UNCHANGED <<ctl_callers, ctl_written, ctl_last_read, ctl_stops>>

\* _process_command: self._socket.sendall(...)
CtlWrite ==
  /\ CtlOnly
  /\ \E c \in ctl_callers :
       /\ ctl_pc[c] = "write"
       /\ \/ \* the byte is handed to the connection
             /\ ctl_socket # 0
             /\ ctl_socks' =
                  IF ctl_socks[ctl_socket].peer_closed THEN ctl_socks
                  ELSE [ctl_socks EXCEPT ![ctl_socket].inq =
                          Append(@, [ch |-> ctl_cmd[c], by |-> c])]
             /\ ctl_written' = ctl_written + 1
             /\ ctl_pc' = [ctl_pc EXCEPT ![c] = "read"]
             /\ UNCHANGED <<ctl_connected, ctl_socket, ctl_command_sent,
                            ctl_connection_status, ctl_connection_error>>
          \/ \* sendall raises: no socket object, or the peer has gone
             /\ IF ctl_socket = 0 THEN TRUE ELSE ctl_socks[ctl_socket].peer_closed
             /\ CtlExcept(c)
             /\ UNCHANGED ctl_written
  /\ UNCHANGED <<ctl_callers, ctl_cmd, ctl_light_on, ctl_nsock,
                 ctl_light_state_changed, ctl_connects, ctl_calls,
                 ctl_last_cmd, ctl_last_return, ctl_last_read, ctl_stops>>

\* CtlHandleResponse reporting success for whatever recv(1) returned
CtlHandleResponse_AlwaysOk(c, response) ==
  LET cmd == ctl_cmd[c]
  IN  /\ ctl_light_on' = IF cmd = "L" THEN TRUE
                         ELSE IF cmd = "l" THEN FALSE ELSE ctl_light_on
      /\ ctl_light_state_changed' =
           IF cmd = "L" THEN Append(ctl_light_state_changed, TRUE)
           ELSE IF cmd = "l" THEN Append(ctl_light_state_changed, FALSE)
           ELSE ctl_light_state_changed
      /\ ctl_command_sent' = Append(ctl_command_sent, <<cmd, TRUE>>)
      /\ ctl_pc' = [ctl_pc EXCEPT ![c] = "idle"]

\* _process_command after recv(1) returned response
CtlHandleResponse(c, response) ==
  LET success == (response = "1")
      cmd     == ctl_cmd[c]
  IN  /\ ctl_light_on' = IF cmd = "L" THEN TRUE
                         ELSE IF cmd = "l" THEN FALSE ELSE ctl_light_on
      /\ ctl_light_state_changed' =
           IF cmd = "L" THEN Append(ctl_light_state_changed, TRUE)
           ELSE IF cmd = "l" THEN Append(ctl_light_state_changed, FALSE)
           ELSE ctl_light_state_changed
      /\ ctl_command_sent' = Append(ctl_command_sent, <<cmd, success>>)
      /\ ctl_pc' = [ctl_pc EXCEPT ![c] = "idle"]

\* _process_command: response = self._socket.recv(1), and what follows
CtlRead ==
  /\ CtlOnly
  /\ \E c \in ctl_callers :
       /\ ctl_pc[c] = "read"
       /\ \/ \* a response byte is there
             /\ ctl_socket # 0
             /\ ctl_socks[ctl_socket].outq # <<>>
             /\ LET r == Head(ctl_socks[ctl_socket].outq) IN
                  /\ ctl_last_read' = [by |-> c, b |-> r.b, for |-> r.for]
                  /\ CtlHandleResponse(c, r.b)
             /\ ctl_socks' = [ctl_socks EXCEPT ![ctl_socket].outq = Tail(@)]
             /\ UNCHANGED <<ctl_connected, ctl_socket, ctl_connection_status,
                            ctl_connection_error>>
          \/ \* the peer closed the connection: recv returns b''
             /\ ctl_socket # 0
             /\ ctl_socks[ctl_socket].outq = <<>>
             /\ ctl_socks[ctl_socket].peer_closed
             /\ ctl_last_read' = [by |-> c, b |-> "", for |-> {}]
             /\ CtlHandleResponse(c, "")
             /\ UNCHANGED <<ctl_connected, ctl_socket, ctl_socks,
                            ctl_connection_status, ctl_connection_error>>
          \/ \* recv raises: no socket object, timeout, or connection reset
             /\ IF ctl_socket = 0 THEN TRUE ELSE ctl_socks[ctl_socket].outq = <<>>
             /\ ctl_last_read' = [by |-> c, b |-> "raise", for |-> {}]
             /\ CtlExcept(c)
             /\ UNCHANGED <<ctl_light_on, ctl_light_state_changed>>
  /\ UNCHANGED <<ctl_callers, ctl_cmd, ctl_nsock, ctl_connects, ctl_calls,
                 ctl_last_cmd, ctl_last_return, ctl_written, ctl_stops>>

\* stop()
CtlStop ==
  /\ CtlOnly
  /\ \E c \in ctl_callers : ctl_pc[c] = "idle"
  /\ ctl_stops < MaxStops
  /\ ctl_stops' = ctl_stops + 1
  /\ LET cl == CleanupSocket IN
       /\ ctl_socket' = cl.socket
       /\ ctl_connected' = cl.connected
       /\ ctl_socks' = cl.socks
       /\ ctl_connection_status' = cl.status
  /\ UNCHANGED <<ctl_callers, ctl_pc, ctl_cmd, ctl_light_on, ctl_nsock,
                 ctl_command_sent, ctl_light_state_changed,
                 ctl_connection_error, ctl_connects, ctl_calls, ctl_last_cmd,
                 ctl_last_return, ctl_written, ctl_last_read>>

\* handle_control_client: the reply to a chunk returned by conn.recv(2)
DevReply(chunk) ==
  IF Len(chunk) = 1 /\ chunk[1].ch \in {"L", "l", "P", "1", "2", "3", "4", "5"}
  THEN "1" ELSE "0"

\* handle_control_client: one pass of its loop that received data
DevRespond ==
  /\ CtlOnly
  /\ \E s \in 1..ctl_nsock, k \in 1..2 :
       /\ ~ctl_socks[s].closed /\ ~ctl_socks[s].peer_closed
       /\ k <= Len(ctl_socks[s].inq)
       /\ LET chunk == SubSeq(ctl_socks[s].inq, 1, k) IN
            ctl_socks' = [ctl_socks EXCEPT
               ![s].inq = SubSeq(@, k + 1, Len(@)),
               ![s].outq = Append(@, [b |-> DevReply(chunk),
                                      for |-> {chunk[i].by : i \in 1..k}])]
  /\ UNCHANGED <<ctl_callers, ctl_pc, ctl_cmd, ctl_connected, ctl_socket,
                 ctl_light_on, ctl_nsock, ctl_command_sent,
                 ctl_connection_status, ctl_light_state_changed,
                 ctl_connection_error, ctl_connects, ctl_calls, ctl_last_cmd,
                 ctl_last_return, ctl_written, ctl_last_read, ctl_stops>>

\* handle_control_client leaves its loop and closes conn
DevClose ==
  /\ CtlOnly
  /\ \E s \in 1..ctl_nsock :
       /\ ~ctl_socks[s].peer_closed
       /\ ctl_socket = s
       /\ ctl_socks' = [ctl_socks EXCEPT ![s].peer_closed = TRUE]
  /\ UNCHANGED <<ctl_callers, ctl_pc, ctl_cmd, ctl_connected, ctl_socket,
                 ctl_light_on, ctl_nsock, ctl_command_sent,
                 ctl_connection_status, ctl_light_state_changed,
                 ctl_connection_error, ctl_connects, ctl_calls, ctl_last_cmd,
                 ctl_last_return, ctl_written, ctl_last_read, ctl_stops>>

\* ControlThread.__init__, used by the callers in cs
CtlInit(cs) ==
  /\ ctl_callers = cs
  /\ ctl_pc = [c \in Callers |-> "idle"]
  /\ ctl_cmd = [c \in Callers |-> None]
  /\ ctl_connected = FALSE
  /\ ctl_socket = 0
  /\ ctl_light_on = FALSE
  /\ ctl_socks = [s \in 1..MaxCalls |-> NewSock]
  /\ ctl_nsock = 0
  /\ ctl_command_sent = <<>>
  /\ ctl_connection_status = <<>>
  /\ ctl_light_state_changed = <<>>
  /\ ctl_connection_error = 0
  /\ ctl_connects = 0
  /\ ctl_calls = 0
  /\ ctl_last_cmd = None
  /\ ctl_last_return = None
  /\ ctl_written = 0
  /\ ctl_stops = 0
  /\ ctl_last_read = [by |-> 0, b |-> None, for |-> {}]

\* a constructed ControlThread that is never used
CtlIdle == CtlInit({})

\* ---------------------------------------------------------------------
\* CameraApp: starting and stopping the two worker threads
\* ---------------------------------------------------------------------
ThreadIds == 1..MaxThreads

\* QThread.isRunning() of worker t ("stopping": its run flag is cleared
\* and run() has not returned yet)
IsRunning(threads, t) == threads[t] \in {"running", "quota", "stopping"}

\* the signals of the worker threads wait in the GUI thread's event queue
AppEmit(sig, t) == app_queue' = Append(app_queue, [sig |-> sig, from |-> t])

\* SpeedCalculationThread.stop() / DetectionThread.stop() on worker t
StopThread(threads, t) ==
  IF threads[t] \in {"running", "quota"} THEN [threads EXCEPT ![t] = "stopping"]
  ELSE threads

\* DisconnectCamera without the stop of the running calibrator
DisconnectCamera_LeavesCalibrator ==
  /\ app_sp' = app_sp
  /\ app_video' = "none"
  /\ app_frame' = FALSE

\* disconnect_camera
DisconnectCamera ==
  /\ app_sp' = IF app_speed_thread # 0 /\ IsRunning(app_sp, app_speed_thread)
               THEN StopThread(app_sp, app_speed_thread) ELSE app_sp
  /\ app_video' = "none"
  /\ app_frame' = FALSE

\* connect_camera: the connect/disconnect button
AppConnectCamera ==
  /\ AppOnly
  /\ ~app_closed
  /\ UNCHANGED <<app_raised, app_closed>>
  /\ IF app_video = "running"
     THEN DisconnectCamera
     ELSE /\ app_video' = "running"
          /\ UNCHANGED <<app_sp, app_frame>>
  /\ UNCHANGED <<app_speed_thread, app_detection_thread, app_det, app_nsp,
                 app_ndet, app_queue>>

\* update_video_frame: a frame of the acquisition thread reaches the display
AppUpdateVideoFrame ==
  /\ AppOnly
  /\ ~app_closed
  /\ UNCHANGED <<app_raised, app_closed>>
  /\ app_video = "running"
  /\ app_frame' = TRUE
  /\ UNCHANGED <<app_video, app_speed_thread, app_detection_thread, app_sp,
                 app_det, app_nsp, app_ndet, app_queue>>

\* start_speed_calibration; yes is the answer to its "stop the running one?" box
AppStartSpeedCalibration ==
  /\ AppOnly
  /\ ~app_closed
  /\ UNCHANGED <<app_raised, app_closed>>
  /\ app_nsp < MaxThreads
  /\ \E yes \in BOOLEAN :
       LET busy    == app_speed_thread # 0 /\ IsRunning(app_sp, app_speed_thread)
           proceed == app_video = "running" /\ (busy => yes) /\ app_frame
           stopped == IF busy /\ yes THEN StopThread(app_sp, app_speed_thread)
                      ELSE app_sp
       IN  /\ app_video = "running"
           /\ IF proceed
              THEN /\ app_nsp' = app_nsp + 1
                   /\ app_speed_thread' = app_nsp + 1
                   /\ app_sp' = [stopped EXCEPT ![app_nsp + 1] = "running"]
              ELSE /\ app_sp' = stopped
                   /\ app_speed_thread' = IF busy /\ yes THEN 0 ELSE app_speed_thread
                   /\ UNCHANGED app_nsp
  /\ UNCHANGED <<app_video, app_frame, app_detection_thread, app_det, app_ndet,
                 app_queue>>

\* start_detection; yes is the answer to its "stop the running one?" box
AppStartDetection ==
  /\ AppOnly
  /\ ~app_closed
  /\ UNCHANGED <<app_raised, app_closed>>
  /\ app_ndet < MaxThreads
  /\ \E yes \in BOOLEAN :
       LET busy    == app_detection_thread # 0 /\ IsRunning(app_det, app_detection_thread)
           proceed == app_video = "running" /\ (busy => yes) /\ app_frame
           stopped == IF busy /\ yes THEN StopThread(app_det, app_detection_thread)
                      ELSE app_det
       IN  /\ app_video = "running"
           /\ IF proceed
              THEN /\ app_ndet' = app_ndet + 1
                   /\ app_detection_thread' = app_ndet + 1
                   /\ app_det' = [stopped EXCEPT ![app_ndet + 1] = "running"]
              ELSE /\ app_det' = stopped
                   /\ app_detection_thread' = IF busy /\ yes THEN 0
                                              ELSE app_detection_thread
                   /\ UNCHANGED app_ndet
  /\ UNCHANGED <<app_video, app_frame, app_speed_thread, app_sp, app_nsp,
                 app_queue>>

\* SpeedCalculationThread.run of worker t emits a pairwise speed and goes on
SpThreadEmitSpeed ==
  /\ AppOnly
  /\ UNCHANGED <<app_raised, app_closed>>
  /\ Len(app_queue) < MaxQueue
  /\ \E t \in ThreadIds :
       /\ app_sp[t] = "running"
       /\ AppEmit("calculation_complete", t)
  /\ UNCHANGED <<app_video, app_frame, app_speed_thread, app_detection_thread,
                 app_sp, app_det, app_nsp, app_ndet>>

\* SpeedCalculationThread.run of worker t returns: after stop(), after the
\* last marker (with the average), or after the timeout (with an error)
SpThreadFinish ==
  /\ AppOnly
  /\ UNCHANGED <<app_raised, app_closed>>
  /\ \E t \in ThreadIds :
       /\ IsRunning(app_sp, t)
       /\ app_sp' = [app_sp EXCEPT ![t] = "finished"]
       /\ \/ /\ app_sp[t] = "stopping"
             /\ UNCHANGED app_queue
          \/ /\ app_sp[t] = "running"
             /\ Len(app_queue) < MaxQueue
             /\ \E sig \in {"calculation_complete", "calculation_error"} :
                  AppEmit(sig, t)
  /\ UNCHANGED <<app_video, app_frame, app_speed_thread, app_detection_thread,
                 app_det, app_nsp, app_ndet>>

\* DetectionThread.run of worker t emits error_occurred while it processes
\* a frame: for an invalid ROI (and goes on) or for a failed inference (and
\* clears its run flag)
DetThreadError ==
  /\ AppOnly
  /\ UNCHANGED <<app_raised, app_closed>>
  /\ Len(app_queue) < MaxQueue
  /\ app_frame
  /\ \E t \in ThreadIds :
       /\ app_det[t] = "running"
       /\ AppEmit("error_occurred", t)
       /\ \/ UNCHANGED app_det
          \/ app_det' = [app_det EXCEPT ![t] = "stopping"]
  /\ UNCHANGED <<app_video, app_frame, app_speed_thread, app_detection_thread,
                 app_sp, app_nsp, app_ndet>>

\* DetectionThread.run of worker t processes the frame of its second line
\* arrival: total_count reaches count
DetThreadReachQuota ==
  /\ AppOnly
  /\ UNCHANGED <<app_raised, app_closed>>
  /\ app_frame
  /\ \E t \in ThreadIds :
       /\ app_det[t] = "running"
       /\ app_det' = [app_det EXCEPT ![t] = "quota"]
  /\ UNCHANGED <<app_video, app_frame, app_speed_thread, app_detection_thread,
                 app_sp, app_nsp, app_ndet, app_queue>>

\* DetectionThread.run of worker t returns, after its last status emission:
\* its flag was cleared, or it made its final pass on a frame
DetThreadFinish ==
  /\ AppOnly
  /\ UNCHANGED <<app_raised, app_closed>>
  /\ Len(app_queue) < MaxQueue
  /\ \E t \in ThreadIds :
       /\ \/ app_det[t] = "stopping"
          \/ app_det[t] = "quota" /\ app_frame
       /\ app_det' = [app_det EXCEPT ![t] = "finished"]
       /\ AppEmit("status_stopped", t)
  /\ UNCHANGED <<app_video, app_frame, app_speed_thread, app_detection_thread,
                 app_sp, app_nsp, app_ndet>>

\* DetectionThread.run of worker t makes its final pass while the frame
\* source returns None: cv2.rectangle raises and run() is left without a
\* status emission
DetThreadCrash ==
  /\ AppOnly
  /\ UNCHANGED <<app_raised, app_closed>>
  /\ ~app_frame
  /\ \E t \in ThreadIds :
       /\ app_det[t] = "quota"
       /\ app_det' = [app_det EXCEPT ![t] = "finished"]
  /\ UNCHANGED <<app_video, app_frame, app_speed_thread, app_detection_thread,
                 app_sp, app_nsp, app_ndet, app_queue>>

\* the slot connected to the signal at the head of the event queue:
\* on_speed_calculation_complete, on_speed_calculation_error,
\* on_detection_error, on_detection_status_update
AppDeliver ==
  /\ AppOnly
  /\ ~app_closed
  /\ UNCHANGED <<app_raised, app_closed>>
  /\ app_queue # <<>>
  /\ app_queue' = Tail(app_queue)
  /\ LET sig == Head(app_queue).sig IN
       IF sig \in {"calculation_complete", "calculation_error"}
       THEN \* cleanup_speed_calibration
            /\ app_speed_thread' = 0
            /\ UNCHANGED app_detection_thread
       ELSE \* cleanup_detection
            /\ app_detection_thread' = 0
            /\ UNCHANGED app_speed_thread
  /\ UNCHANGED <<app_video, app_frame, app_sp, app_det, app_nsp, app_ndet>>

\* handle_thread_status for an "error" status of the acquisition thread:
\* disconnect_camera(), then self.speed_thread.stop(), which raises
\* AttributeError when speed_thread is None
AppHandleVideoError ==
  /\ AppOnly
  /\ app_video = "running"
  /\ ~app_closed
  /\ DisconnectCamera
  /\ app_raised' = (app_raised \/ app_speed_thread = 0)
  /\ UNCHANGED app_closed
  /\ UNCHANGED <<app_speed_thread, app_detection_thread, app_det, app_nsp,
                 app_ndet, app_queue>>

\* on_close: stop a running calibrator, disconnect a running camera, accept
AppOnClose ==
  /\ AppOnly
  /\ ~app_closed
  /\ app_closed' = TRUE
  /\ IF app_video = "running"
     THEN DisconnectCamera
     ELSE /\ app_sp' = IF app_speed_thread # 0 /\ IsRunning(app_sp, app_speed_thread)
                       THEN StopThread(app_sp, app_speed_thread) ELSE app_sp
          /\ UNCHANGED <<app_video, app_frame>>
  /\ UNCHANGED <<app_speed_thread, app_detection_thread, app_det, app_nsp,
                 app_ndet, app_queue, app_raised>>

\* CameraApp.__init__
AppInit ==
  /\ app_video = "none"
  /\ app_frame = FALSE
  /\ app_speed_thread = 0
  /\ app_detection_thread = 0
  /\ app_sp = [t \in ThreadIds |-> "unused"]
  /\ app_det = [t \in ThreadIds |-> "unused"]
  /\ app_nsp = 0
  /\ app_ndet = 0
  /\ app_queue = <<>>
  /\ app_raised = FALSE
  /\ app_closed = FALSE

\* ---------------------------------------------------------------------
\* VideoStreamThread, CameraDisplay and CameraApp's connect button
\* ---------------------------------------------------------------------

\* CameraDisplay.set_connected(connected): the values it leaves in
\* _connected and current_frame
SetConnected(connected) ==
  IF cam_connected # connected
  THEN [connected |-> connected,
        frame |-> IF ~connected THEN FALSE ELSE cam_current_frame]
  ELSE [connected |-> cam_connected, frame |-> cam_current_frame]

\* CameraDisplay.update_frame(frame), frame being an array
UpdateFrame ==
  /\ cam_current_frame' = TRUE
  /\ cam_arrived' = TRUE
  /\ UNCHANGED cam_connected

\* disconnect_camera: video_thread.stop() when a thread object exists, then
\* set_connected(False); stop() blocks in wait() while run() has not returned
DisconnectCameraVideo ==
  IF vid_pc \in {"started", "loop"}
  THEN /\ vid_is_running' = FALSE
       /\ vid_gui' = "waiting"
       /\ UNCHANGED <<vid_pc, cam_connected, cam_current_frame>>
  ELSE /\ vid_is_running' = IF vid_pc = "finished" THEN FALSE ELSE vid_is_running
       /\ vid_pc' = "none"
       /\ vid_gui' = "idle"
       /\ cam_connected' = SetConnected(FALSE).connected
       /\ cam_current_frame' = SetConnected(FALSE).frame

\* connect_camera: the connect/disconnect button
VidConnectCamera ==
  /\ VidOnly
  /\ vid_gui = "idle"
  /\ IF vid_pc \in {"started", "loop"}
     THEN \* "if self.video_thread and self.video_thread.isRunning()"
          /\ DisconnectCameraVideo
          /\ UNCHANGED <<vid_openable, vid_reads, vid_status, vid_released,
                         vid_queue, cam_arrived>>
     ELSE \* a new VideoStreamThread is built and started
          /\ vid_pc' = "started"
          /\ vid_is_running' = TRUE
          /\ vid_openable' \in BOOLEAN
          /\ vid_reads' = 0
          /\ vid_status' = <<>>
          /\ vid_released' = FALSE
          /\ cam_connected' = SetConnected(TRUE).connected
          /\ cam_current_frame' = SetConnected(TRUE).frame
          /\ cam_arrived' = FALSE
          /\ UNCHANGED <<vid_gui, vid_queue>>

\* VidStopReturn where stop() does not wait for run() to return
VidStopReturn_NoWait ==
  /\ VidOnly
  /\ vid_gui = "waiting"
  /\ vid_gui' = "idle"
  /\ vid_pc' = "none"
  /\ cam_connected' = SetConnected(FALSE).connected
  /\ cam_current_frame' = SetConnected(FALSE).frame
  /\ UNCHANGED <<vid_is_running, vid_openable, vid_reads, vid_status,
                 vid_released, vid_queue, cam_arrived>>

\* VideoStreamThread.stop(): wait() returns, and disconnect_camera goes on
\* to set_connected(False)
VidStopReturn ==
  /\ VidOnly
  /\ vid_gui = "waiting"
  /\ vid_pc = "finished"
  /\ vid_gui' = "idle"
  /\ vid_pc' = "none"
  /\ cam_connected' = SetConnected(FALSE).connected
  /\ cam_current_frame' = SetConnected(FALSE).frame
  /\ UNCHANGED <<vid_is_running, vid_openable, vid_reads, vid_status,
                 vid_released, vid_queue, cam_arrived>>

\* the GUI thread handles the signal at the head of its queue:
\* update_video_frame for frame_ready, handle_thread_status for an error
VidDeliver ==
  /\ VidOnly
  /\ vid_gui = "idle"
  /\ vid_queue # <<>>
  /\ vid_queue' = Tail(vid_queue)
  /\ IF Head(vid_queue) = "frame"
     THEN /\ UpdateFrame
          /\ UNCHANGED <<vid_pc, vid_is_running, vid_gui>>
     ELSE /\ DisconnectCameraVideo
          /\ UNCHANGED cam_arrived
  /\ UNCHANGED <<vid_openable, vid_reads, vid_status, vid_released>>

\* run(): the statements before the loop
VidRunBegin ==
  /\ VidOnly
  /\ vid_pc = "started"
  /\ IF vid_openable
     THEN /\ vid_pc' = "loop"
          /\ vid_status' = Append(vid_status, "debug")
          /\ UNCHANGED vid_queue
     ELSE /\ Len(vid_queue) < MaxQueue
          /\ vid_pc' = "finished"
          /\ vid_status' = vid_status \o <<"debug", "error">>
          /\ vid_queue' = Append(vid_queue, "error")
  /\ UNCHANGED <<vid_is_running, vid_openable, vid_reads, vid_released,
                 vid_gui, cam_connected, cam_current_frame, cam_arrived>>

\* VidRead where a failed read leaves the loop
VidRead_BreaksOnFail ==
  /\ VidOnly
  /\ vid_pc = "loop"
  /\ vid_is_running
  /\ vid_reads < MaxReads
  /\ vid_reads' = vid_reads + 1
  /\ \/ /\ vid_status' = Append(vid_status, "warning")
        /\ vid_pc' = "finished"
        /\ UNCHANGED vid_queue
     \/ /\ Len(vid_queue) < MaxQueue
        /\ vid_queue' = Append(vid_queue, "frame")
        /\ UNCHANGED <<vid_status, vid_pc>>
  /\ UNCHANGED <<vid_is_running, vid_openable, vid_released, vid_gui,
                 cam_connected, cam_current_frame, cam_arrived>>

\* run(): one iteration of the loop
VidRead ==
  /\ VidOnly
  /\ vid_pc = "loop"
  /\ vid_is_running
  /\ vid_reads < MaxReads
  /\ vid_reads' = vid_reads + 1
  /\ \/ \* "if not ret": warning, continue
        /\ vid_status' = Append(vid_status, "warning")
        /\ UNCHANGED vid_queue
     \/ \* frame_ready.emit(...)
        /\ Len(vid_queue) < MaxQueue
        /\ vid_queue' = Append(vid_queue, "frame")
        /\ UNCHANGED vid_status
  /\ UNCHANGED <<vid_pc, vid_is_running, vid_openable, vid_released, vid_gui,
                 cam_connected, cam_current_frame, cam_arrived>>

\* run(): "while self._is_running" is false; the statements after the loop
VidLoopExit ==
  /\ VidOnly
  /\ vid_pc = "loop"
  /\ ~vid_is_running
  /\ vid_pc' = "finished"
  /\ vid_released' = TRUE
  /\ vid_status' = Append(vid_status, "debug")
  /\ UNCHANGED <<vid_is_running, vid_openable, vid_reads, vid_gui, vid_queue,
                 cam_connected, cam_current_frame, cam_arrived>>

\* CameraApp.__init__ and CameraDisplay.__init__: no video thread yet
VidInit ==
  /\ vid_pc = "none"
  /\ vid_is_running = TRUE
  /\ vid_openable = TRUE
  /\ vid_reads = 0
  /\ vid_status = <<>>
  /\ vid_released = FALSE
  /\ vid_gui = "idle"
  /\ vid_queue = <<>>
  /\ cam_connected = FALSE
  /\ cam_current_frame = FALSE
  /\ cam_arrived = FALSE

\* ---------------------------------------------------------------------
\* ROI clamping of the two run() loops, applied on its own
\* ---------------------------------------------------------------------

\* run(): the four actual_roi_* assignments on a frame of size cl_size
ClampOnce ==
  /\ ClampOnly
  /\ cl_once = <<>>
  /\ cl_once' = ClampRoi(cl_roi, cl_size)
  /\ UNCHANGED <<cl_roi, cl_size, cl_twice>>

\* the same assignments with the clamped ROI as the ROI, for a clamped ROI
\* that passes "actual_roi_w <= 0 or actual_roi_h <= 0"
ClampTwice ==
  /\ ClampOnly
  /\ cl_once # <<>>
  /\ cl_twice = <<>>
  /\ ~RoiInvalid(cl_once)
  /\ cl_twice' = ClampRoi(cl_once, cl_size)
  /\ UNCHANGED <<cl_roi, cl_size, cl_once>>

\* the ROIs and frame sizes explored
ClampInit ==
  /\ cl_roi \in (-1..MaxDim) \X (-1..MaxDim) \X (0..MaxDim + 1) \X (0..MaxDim + 1)
  /\ cl_size \in (1..MaxDim) \X (1..MaxDim)
  /\ cl_once = <<>>
  /\ cl_twice = <<>>

\* no clamping is followed
ClampIdle ==
  /\ cl_roi = <<0, 0, 1, 1>>
  /\ cl_size = <<1, 1>>
  /\ cl_once = <<>>
  /\ cl_twice = <<>>

\* ---------------------------------------------------------------------
\* CameraApp and its ControlThread: connect button, light and photo buttons
\* ---------------------------------------------------------------------

\* ControlThread.send_command(ch) called by the GUI thread (caller 1), up
\* to its first socket transfer
AcSend(ch) ==
  /\ ctl_calls' = ctl_calls + 1
  /\ ctl_last_cmd' = ch
  /\ \/ CtlReject(1, ch)
     \/ CtlProceed(1, ch)
     \/ CtlConnectOk(1, ch)
     \/ CtlConnectFail(1, ch)
  /\ UNCHANGED <<ctl_callers, ctl_written, ctl_last_read, ctl_stops>>

\* control_thread.stop(), when a ControlThread exists
AcStopControl ==
  LET cl == CleanupSocket IN
    /\ ctl_socket' = cl.socket
    /\ ctl_connected' = cl.connected
    /\ ctl_socks' = cl.socks
    /\ ctl_connection_status' = cl.status

\* connect_camera: disconnect_camera() while the video thread runs; else a
\* new video thread and, for a network camera, a new ControlThread after
\* the stop() of the one there is
AcConnectCamera ==
  /\ AcOnly
  /\ IF ac_video = "running"
     THEN /\ ac_video' = "none"
          /\ ac_control_thread' = FALSE
          /\ IF ac_control_thread THEN AcStopControl
             ELSE UNCHANGED <<ctl_socket, ctl_connected, ctl_socks,
                              ctl_connection_status>>
          /\ UNCHANGED <<ac_created, ctl_light_on>>
     ELSE /\ ac_video' = "running"
          /\ \E use_local \in BOOLEAN :
               IF use_local
               THEN UNCHANGED <<ac_control_thread, ac_created, ctl_socket,
                                ctl_connected, ctl_socks,
                                ctl_connection_status, ctl_light_on>>
               ELSE /\ ac_created < MaxThreads
                    /\ ac_created' = ac_created + 1
                    /\ ac_control_thread' = TRUE
                    \* ControlThread.__init__ of the new object
                    /\ ctl_socket' = 0
                    /\ ctl_connected' = FALSE
                    /\ ctl_light_on' = FALSE
                    /\ ctl_socks' = IF ac_control_thread THEN CleanupSocket.socks
                                    ELSE ctl_socks
                    /\ ctl_connection_status' =
                         IF ac_control_thread THEN CleanupSocket.status
                         ELSE ctl_connection_status
  /\ UNCHANGED <<ac_light_state, ac_log, ctl_callers, ctl_pc, ctl_cmd,
                 ctl_nsock, ctl_command_sent, ctl_light_state_changed,
                 ctl_connection_error, ctl_connects, ctl_calls, ctl_last_cmd,
                 ctl_last_return, ctl_written, ctl_stops, ctl_last_read>>

\* VideoStreamThread.run returns by itself (the stream cannot be opened):
\* video_thread.isRunning() is False from then on
AcVideoEnds ==
  /\ AcOnly
  /\ ac_video = "running"
  /\ ac_video' = "ended"
  /\ UNCHANGED <<ac_control_thread, ac_created, ac_light_state, ac_log,
                 ctl_vars>>

\* AcLedControl without the is_connected test
AcLedControl_NoConnectedTest ==
  /\ AcOnly
  /\ IF ~ac_control_thread
     THEN /\ Len(ac_log) < MaxCalls
          /\ ac_log' = Append(ac_log, "led")
          /\ UNCHANGED <<ac_light_state, ctl_vars>>
     ELSE /\ ctl_calls < MaxCalls
          /\ ctl_pc[1] = "idle"
          /\ AcSend(IF ac_light_state THEN "l" ELSE "L")
          /\ ac_light_state' = ~ac_light_state
          /\ UNCHANGED ac_log
  /\ UNCHANGED <<ac_video, ac_control_thread, ac_created>>

\* LED_4_control
AcLedControl ==
  /\ AcOnly
  /\ IF ~ac_control_thread \/ ~ctl_connected
     THEN /\ Len(ac_log) < MaxCalls
          /\ ac_log' = Append(ac_log, "led")
          /\ UNCHANGED <<ac_light_state, ctl_vars>>
     ELSE /\ ctl_calls < MaxCalls
          /\ ctl_pc[1] = "idle"
          /\ AcSend(IF ac_light_state THEN "l" ELSE "L")
          /\ ac_light_state' = ~ac_light_state
          /\ UNCHANGED ac_log
  /\ UNCHANGED <<ac_video, ac_control_thread, ac_created>>

\* capture_image
AcCaptureImage ==
  /\ AcOnly
  /\ IF ~ac_control_thread \/ ~ctl_connected
     THEN /\ Len(ac_log) < MaxCalls
          /\ ac_log' = Append(ac_log, "photo")
          /\ UNCHANGED ctl_vars
     ELSE /\ ctl_calls < MaxCalls
          /\ ctl_pc[1] = "idle"
          /\ AcSend("P")
          /\ UNCHANGED ac_log
  /\ UNCHANGED <<ac_video, ac_control_thread, ac_created, ac_light_state>>

\* CameraApp.__init__
AcInit ==
  /\ ac_video = "none"
  /\ ac_control_thread = FALSE
  /\ ac_created = 0
  /\ ac_light_state = FALSE
  /\ ac_log = <<>>

\* no button is pressed
AcIdle == AcInit

\* ---------------------------------------------------------------------
\* Specifications
\* ---------------------------------------------------------------------
InitDet == DetInit /\ SpIdle /\ CtlIdle /\ AppInit /\ VidInit /\ ClampIdle /\ AcIdle

NextDet ==
  \/ DetStart
  \/ DetRunBegin
  \/ DetStop
  \/ DetLoopExit
  \/ DetIterate
  \/ DetFinalPass
  \/ DetTick

SpecDet == InitDet /\ [][NextDet]_vars

InitSp == SpInit /\ DetIdle /\ CtlIdle /\ AppInit /\ VidInit /\ ClampIdle /\ AcIdle

NextSp ==
  \/ SpStart
  \/ SpRunBegin
  \/ SpStop
  \/ SpTick
  \/ SpLoopExit
  \/ SpTimeout
  \/ SpIterate

SpecSp == InitSp /\ [][NextSp]_vars



\* ControlThread used from one thread (the GUI thread of CameraApp)
InitCtl == CtlInit({1}) /\ DetIdle /\ SpIdle /\ AppInit /\ VidInit /\ ClampIdle /\ AcIdle

NextCtl ==
  \/ CtlSendCommand
  \/ CtlWrite
  \/ CtlRead
  \/ CtlStop
  \/ DevRespond
  \/ DevClose

SpecCtl == InitCtl /\ [][NextCtl]_vars

\* ControlThread used from two threads at once
InitCtlConc == CtlInit({1, 2}) /\ DetIdle /\ SpIdle /\ AppInit /\ VidInit /\ ClampIdle /\ AcIdle

SpecCtlConc == InitCtlConc /\ [][NextCtl]_vars

\* CameraApp and the worker threads it starts
InitApp == AppInit /\ DetIdle /\ SpIdle /\ CtlIdle /\ VidInit /\ ClampIdle /\ AcIdle

NextApp ==
  \/ AppConnectCamera
  \/ AppUpdateVideoFrame
  \/ AppStartSpeedCalibration
  \/ AppStartDetection
  \/ SpThreadEmitSpeed
  \/ SpThreadFinish
  \/ DetThreadError
  \/ DetThreadReachQuota
  \/ DetThreadFinish
  \/ DetThreadCrash
  \/ AppDeliver
  \/ AppHandleVideoError
  \/ AppOnClose

SpecApp == InitApp /\ [][NextApp]_vars

\* VideoStreamThread and CameraDisplay under the connect button
InitVid == VidInit /\ DetIdle /\ SpIdle /\ CtlIdle /\ AppInit /\ ClampIdle /\ AcIdle

NextVid ==
  \/ VidConnectCamera
  \/ VidStopReturn
  \/ VidDeliver
  \/ VidRunBegin
  \/ VidRead
  \/ VidLoopExit

SpecVid == InitVid /\ [][NextVid]_vars

\* ROI clamping applied to bounded ROIs and frame sizes
InitClamp == ClampInit /\ DetIdle /\ SpIdle /\ CtlIdle /\ AppInit /\ VidInit /\ AcIdle

NextClamp ==
  \/ ClampOnce
  \/ ClampTwice

SpecClamp == InitClamp /\ [][NextClamp]_vars

\* CameraApp's connect button and its two control buttons, with the
\* ControlThread they use
InitAppCtl ==
  AcInit /\ CtlInit({1}) /\ DetIdle /\ SpIdle /\ AppInit /\ VidInit /\ ClampIdle

NextAppCtl ==
  \/ AcConnectCamera
  \/ AcVideoEnds
  \/ AcLedControl
  \/ AcCaptureImage

SpecAppCtl == InitAppCtl /\ [][NextAppCtl]_vars

\* ---------------------------------------------------------------------
\* Properties
\* ---------------------------------------------------------------------

\* C1: a finished DetectionThread run with N >= 1 line arrivals has emitted
\* N detection_result signals (N-1 during the run and one flushed at the
\* end), carrying the grid ids 1, 2, ..., N in this order.
C1_GridResultsEmitted ==
  (det_pc = "finished" /\ det_arrivals >= 1) =>
     /\ Len(det_detection_result) = det_arrivals
     /\ \A i \in 1..Len(det_detection_result) : det_detection_result[i][1] = i

\* C2: at every loop check of a DetectionThread run, if an inference call of
\* the current grid reported a detection, the seed flag held for the grid
\* is true (the flag is a sticky OR over the grid).
C2_SeedFlagSticky ==
  (det_pc = "loop" /\ det_detection_active /\ det_grid_seen) => det_seed_detected

\* C3: a SpeedCalculationThread run that was shown TOTAL_MARKERS crossings
\* spaced by one fixed interval above the minimum valid time, none of them
\* rolled back, ends with expected_marker_index = TOTAL_MARKERS, without an
\* error signal, having emitted exactly TOTAL_MARKERS - 1 pairwise speeds,
\* each equal to MARKER_DISTANCE / interval.
SpPairs == SelectSeq(sp_calculation_complete, LAMBDA e : e.site = "pair")

SpFixedRate ==
  /\ Len(sp_crossing_timestamps) = TOTAL_MARKERS
  /\ ~sp_rolled
  /\ sp_crossing_timestamps[2] - sp_crossing_timestamps[1] > sp_time_limit
  /\ \A i \in 2..TOTAL_MARKERS :
       sp_crossing_timestamps[i] - sp_crossing_timestamps[i-1]
         = sp_crossing_timestamps[2] - sp_crossing_timestamps[1]

SpCrossingHandled == sp_cross_parity' # sp_cross_parity

C4_ShortCrossingRolledBack ==
  [][ ( /\ SpCrossingHandled
        /\ sp_crossing_timestamps # <<>>
        /\ sp_now - sp_crossing_timestamps[Len(sp_crossing_timestamps)] < sp_time_limit )
      => ( /\ sp_crossing_timestamps' = sp_crossing_timestamps
           /\ sp_expected_marker_index' = sp_expected_marker_index
           /\ sp_calculation_complete' = sp_calculation_complete ) ]_vars

C4_Witness ==
  /\ sp_pc = "loop"
  /\ sp_rolled
  /\ sp_crossing_timestamps # <<>>
  /\ 0 < sp_now - sp_crossing_timestamps[Len(sp_crossing_timestamps)]
  /\ sp_now - sp_crossing_timestamps[Len(sp_crossing_timestamps)] < sp_time_limit

\* C5: a send_command of L, l or P issued while the channel is Disconnected
\* makes exactly one connect attempt, before any write; when the attempt
\* fails no byte is written, command_sent(cmd, False) is emitted once, the
\* call is over and the channel is still Disconnected.  No connect attempt
\* is made at any other point.
C5_FailedConnectSendsNothing ==
  [][ /\ (ctl_connects' # ctl_connects) =>
            /\ ctl_calls' = ctl_calls + 1
            /\ ctl_connects' = ctl_connects + 1
            /\ ~ctl_connected
      /\ (ctl_calls' = ctl_calls + 1 /\ ~ctl_connected
            /\ ctl_last_cmd' \in {"L", "l", "P"}) =>
            /\ ctl_connects' = ctl_connects + 1
            /\ ctl_written' = ctl_written
            /\ ~ctl_connected' =>
                 /\ ctl_command_sent' =
                      Append(ctl_command_sent, <<ctl_last_cmd', FALSE>>)
                 /\ ctl_socket' = 0
                 /\ \A c \in Callers : ctl_pc'[c] = "idle" ]_vars

C5_Witness ==
  /\ ctl_last_cmd = "P"
  /\ ctl_connects = 1
  /\ ~ctl_connected
  /\ ctl_written = 0
  /\ ctl_command_sent = << <<"P", FALSE>> >>

\* C6: when a caller's wait for the response byte ends while the peer has
\* closed the connection and no response is left to read, the command is
\* reported failed, the channel becomes Disconnected and
\* connection_status(False) is emitted.
C6_DropWhileWaitingDisconnects ==
  [][ \A c \in Callers :
        ( /\ ctl_pc[c] = "read" /\ ctl_pc'[c] = "idle"
          /\ IF ctl_socket = 0 THEN FALSE
             ELSE /\ ctl_socks[ctl_socket].peer_closed
                  /\ ctl_socks[ctl_socket].outq = <<>> )
        => ( /\ ctl_command_sent' = Append(ctl_command_sent, <<ctl_cmd[c], FALSE>>)
             /\ ~ctl_connected'
             /\ ctl_connection_status' = Append(ctl_connection_status, FALSE) ) ]_vars

\* C7: is_light_on and the light_state_changed emissions change only in a
\* step in which an L or l command receives the response byte '1'.
C7_LightOnlyOnAck ==
  [][ (ctl_light_on' # ctl_light_on
         \/ ctl_light_state_changed' # ctl_light_state_changed)
      => \E c \in Callers :
           /\ ctl_pc[c] = "read" /\ ctl_pc'[c] = "idle"
           /\ ctl_cmd[c] \in {"L", "l"}
           /\ ctl_last_read'.by = c
           /\ ctl_last_read'.b = "1" ]_vars

\* C8: with two threads calling send_command, at most one call is between
\* its write and its read at any time, and every response byte read was
\* sent by the device in answer to the reader's own command byte alone.
C8_SendsSerialized ==
  /\ Cardinality({c \in Callers : ctl_pc[c] = "read"}) <= 1
  /\ ctl_last_read.b \in {"0", "1"} => ctl_last_read.for = {ctl_last_read.by}

\* C9: at any time at most one SpeedCalculationThread and at most one
\* DetectionThread started by CameraApp is running.
C9_AtMostOneWorkerPerKind ==
  /\ Cardinality({t \in ThreadIds : IsRunning(app_sp, t)}) <= 1
  /\ Cardinality({t \in ThreadIds : IsRunning(app_det, t)}) <= 1

\* C10: a send_command call with a character outside {L, l, P, 1..5} makes
\* no connect attempt, writes and reads no byte, emits no command_sent and
\* leaves the connection flag, the socket handle, the connection and the
\* light state as they were.
C10_InvalidCommandTouchesNothing ==
  [][ (ctl_calls' = ctl_calls + 1
         /\ ctl_last_cmd' \notin {"L", "l", "P", "1", "2", "3", "4", "5"})
      => UNCHANGED <<ctl_connects, ctl_written, ctl_last_read, ctl_command_sent,
                     ctl_connected, ctl_socket, ctl_socks, ctl_nsock, ctl_pc,
                     ctl_light_on, ctl_light_state_changed,
                     ctl_connection_status>> ]_vars

C10_Witness ==
  /\ ctl_last_cmd = "x"
  /\ ctl_last_return = FALSE
  /\ ctl_connected
  /\ ctl_connection_error >= 1

\* C11: a send_command call with any of the eight characters L, l, P, 1, 2,
\* 3, 4, 5 is not reported as invalid: it returns True and goes on to the
\* write, after a connect attempt when the channel is Disconnected.
C11_AlphabetAccepted ==
  [][ (ctl_calls' = ctl_calls + 1
         /\ ctl_last_cmd' \in {"L", "l", "P", "1", "2", "3", "4", "5"})
      => /\ ctl_last_return' = TRUE
         /\ ctl_connected => \E c \in Callers : ctl_pc'[c] = "write"
         /\ ~ctl_connected => ctl_connects' = ctl_connects + 1 ]_vars

\* C12: a loop iteration of an active DetectionThread run that begins 5 or
\* more seconds after the last line arrival or departure, and sees no such
\* event itself, stops the run and emits the result of the grid in progress.
C12_QuietRunStops ==
  [][ ( /\ det_pc = "loop" /\ det_running /\ det_detection_active
        /\ det_quiet >= 5
        /\ det_frames' = det_frames + 1
        /\ det_last_black_line_state' = det_last_black_line_state )
      => ( /\ ~det_running'
           /\ Len(det_detection_result') = Len(det_detection_result) + 1 ) ]_vars

\* C13: the first step run() takes once more than 45 s have passed since
\* its start, with fewer than TOTAL_MARKERS crossings accepted and the
\* running flag still set, ends the run: no crossing is handled, and the one
\* calculation_error of the run is emitted, reporting zero progress when no
\* timestamp is retained and k of TOTAL_MARKERS otherwise.
C13_TimeoutEndsRun ==
  [][ ( /\ sp_pc = "loop" /\ sp_running
        /\ sp_expected_marker_index < TOTAL_MARKERS
        /\ sp_now - sp_start_time > SpTimeoutMs
        /\ sp_now' = sp_now /\ sp_stops' = sp_stops )
      => ( /\ sp_pc' = "finished"
           /\ ~sp_running'
           /\ sp_crossing_timestamps' = sp_crossing_timestamps
           /\ sp_expected_marker_index' = sp_expected_marker_index
           /\ sp_calculation_complete' = sp_calculation_complete
           /\ sp_calculation_error' =
                << IF sp_crossing_timestamps = <<>>
                   THEN [kind |-> "timeout_none", n |-> 0]
                   ELSE [kind |-> "timeout_partial",
                         n |-> Len(sp_crossing_timestamps)] >> ) ]_vars

C13_Witness ==
  /\ sp_pc = "finished"
  /\ sp_now - sp_start_time > SpTimeoutMs
  /\ Len(sp_crossing_timestamps) = 2
  /\ sp_calculation_error = << [kind |-> "timeout_partial", n |-> 2] >>

\* C14: once stop() has been called on a started thread, the running flag
\* is false whenever run() is in its loop, so the next loop check ends it.
C14_StopEndsLoop ==
  (det_stops > 0 /\ det_pc = "loop") => ~det_running

\* C15: no pixel write of DetectionThread lands in an array that
\* frame_source() returned.
C15_SourceFrameUntouched == ~det_src_written

\* C16: get_current_frame() returns None whenever the display is in the
\* disconnected state or no frame was delivered since the last connect.
C16_NoFrameUnlessConnected ==
  (~cam_connected \/ ~cam_arrived) => ~cam_current_frame

C18_TransportErrorTearsDown ==
  [][ \A c \in Callers :
        ( /\ ctl_pc[c] # "idle" /\ ctl_pc'[c] = "idle"
          /\ (ctl_pc[c] = "write" \/ ctl_last_read'.b = "raise") )
        => ( /\ ctl_socket' = 0
             /\ ~ctl_connected'
             /\ ctl_socket # 0 => ctl_socks'[ctl_socket].closed
             /\ ctl_connection_status' = Append(ctl_connection_status, FALSE)
             /\ ctl_command_sent' = Append(ctl_command_sent, <<ctl_cmd[c], FALSE>>)
             /\ ctl_connects' = ctl_connects
             /\ ctl_written' = ctl_written
             /\ ctl_nsock' = ctl_nsock ) ]_vars

C18_Witness ==
  /\ ctl_last_read.b = "raise"
  /\ ctl_written = 1
  /\ ctl_connects = 1
  /\ ~ctl_connected /\ ctl_socket = 0
  /\ ctl_socks[1].closed
  /\ ctl_connection_status = <<TRUE, FALSE>>
  /\ ctl_command_sent = << <<"L", FALSE>> >>

\* C19: stop() leaves the socket closed and dropped and the channel
\* Disconnected, and a stop() made when that is already so changes no state
\* and emits nothing.
C19_StopIdempotent ==
  [][ (ctl_stops' = ctl_stops + 1)
      => /\ ctl_socket' = 0
         /\ ~ctl_connected'
         /\ ctl_socket # 0 => ctl_socks'[ctl_socket].closed
         /\ (~ctl_connected /\ ctl_socket = 0) =>
              UNCHANGED <<ctl_callers, ctl_pc, ctl_cmd, ctl_connected,
                          ctl_socket, ctl_light_on, ctl_socks, ctl_nsock,
                          ctl_command_sent, ctl_connection_status,
                          ctl_light_state_changed, ctl_connection_error>> ]_vars

C19_Witness ==
  /\ ctl_stops = 2
  /\ ctl_calls = 1
  /\ ctl_connection_status = <<TRUE, FALSE>>
  /\ ctl_socks[1].closed
  /\ ~ctl_connected /\ ctl_socket = 0

\* C20: run() leaves its loop only with the run flag cleared, and only
\* stop() clears it; a failed read appends a warning status and the loop
\* goes on; when the stream cannot be opened run() ends without a read,
\* having emitted one error status.
CountOf(seq, x) == Cardinality({i \in 1..Len(seq) : seq[i] = x})

C20_LoopEndsOnStopOrOpenFailure ==
  [][ /\ (vid_pc = "loop" /\ vid_pc' # "loop") => ~vid_is_running
      /\ (vid_is_running /\ ~vid_is_running') =>
            /\ vid_gui = "idle"
            /\ vid_reads' = vid_reads /\ vid_status' = vid_status
      /\ (vid_reads' = vid_reads + 1 /\ vid_queue' = vid_queue) =>
            /\ vid_status' = Append(vid_status, "warning")
            /\ vid_pc' = "loop"
      /\ (vid_pc = "started" /\ vid_pc' # "started" /\ ~vid_openable) =>
            /\ vid_pc' = "finished"
            /\ vid_reads' = 0
            /\ CountOf(vid_status', "error") = 1
      /\ (vid_pc = "started" /\ vid_pc' # "started" /\ vid_openable) =>
            /\ vid_pc' = "loop"
            /\ CountOf(vid_status', "error") = 0
      /\ CountOf(vid_status', "error") > CountOf(vid_status, "error") =>
            vid_pc = "started" ]_vars

C20_Witness ==
  /\ vid_pc = "loop"
  /\ vid_is_running
  /\ vid_reads = 2
  /\ vid_status = <<"debug", "warning">>
  /\ vid_queue = <<"frame">>

\* ---------------------------------------------------------------------
\* Claims C21..C30
\* ---------------------------------------------------------------------

\* C21: VideoStreamThread.stop() returns only after the thread has left
\* run() and, where a capture was opened, released it; no frame is published
\* by a thread whose stop() has returned, and every published frame comes from
\* a thread that is inside its loop with the flag still set.
C21_StopWaitsForRun ==
  [][ /\ (vid_pc # "none" /\ vid_pc' = "none")
          => (vid_pc = "finished" /\ (vid_openable => vid_released))
      /\ (vid_reads' # vid_reads /\ Len(vid_queue') > Len(vid_queue))
          => (vid_pc = "loop" /\ vid_is_running)
      /\ vid_pc = "none" => Len(vid_queue') <= Len(vid_queue) ]_vars

\* stop() has returned on a thread that had published frames and was asked
\* to stop while in its loop
C21_Witness ==
  /\ vid_pc = "none"
  /\ vid_gui = "idle"
  /\ vid_released
  /\ ~vid_is_running
  /\ vid_reads >= 1

\* C22 (as stated): no exception escapes DetectionThread.run(), whatever
\* frame_source() returns at any step that fetches a frame.
C22_NoExceptionEscapesRun == det_pc # "crashed"

\* C23: a raising inference call in process_roi emits error_occurred and
\* clears the running flag, and from then on the run neither fetches another
\* frame nor calls the model again.
C23_InferenceErrorStopsRun ==
  [][ /\ (det_infer_calls' = det_infer_calls + 1
           /\ det_error_occurred' # det_error_occurred)
          => (/\ det_error_occurred' = Append(det_error_occurred, "infer")
              /\ ~det_running')
      /\ (\E i \in 1..Len(det_error_occurred) : det_error_occurred[i] = "infer")
          => (/\ det_infer_calls' = det_infer_calls
              /\ det_frames' = det_frames
              /\ det_pc' \in {det_pc, "finished"}) ]_vars

\* a run below its quota ended by a raising inference call
C23_Witness ==
  /\ det_pc = "finished"
  /\ det_total_count < DetCount
  /\ det_infer_calls >= 1
  /\ det_stops = 0
  /\ \E i \in 1..Len(det_error_occurred) : det_error_occurred[i] = "infer"

\* C24 (as stated): the handling of a stream-open error reported by one
\* acquisition thread leaves an acquisition thread that is running at that
\* moment running.
C24_ErrorLeavesOthersRunning ==
  [][ (/\ vid_queue # <<>>
       /\ Head(vid_queue) = "error"
       /\ vid_queue' = Tail(vid_queue)
       /\ vid_pc \in {"started", "loop"}
       /\ vid_is_running)
      => vid_is_running' ]_vars

\* C25 (as stated): a SpeedCalculationThread that met a ROI whose clamped
\* width or height is <= 0 has reported it through calculation_error.
C25_InvalidRoiReported ==
  sp_roi_skipped =>
    \E i \in 1..Len(sp_calculation_error) : sp_calculation_error[i].kind = "roi"

\* C26: clamping a clamped ROI of positive width and height again returns
\* it, and a ROI inside the frame is returned as it was handed in.
C26_ClampIdempotent ==
  /\ cl_twice # <<>> => cl_twice = cl_once
  /\ (/\ cl_once # <<>>
      /\ cl_roi[1] >= 0 /\ cl_roi[2] >= 0
      /\ cl_roi[3] > 0 /\ cl_roi[4] > 0
      /\ cl_roi[1] + cl_roi[3] <= cl_size[2]
      /\ cl_roi[2] + cl_roi[4] <= cl_size[1])
     => cl_once = cl_roi

\* a ROI that starts left of and above the frame and reaches beyond it has
\* been clamped twice
C26_Witness ==
  /\ cl_twice # <<>>
  /\ cl_roi[1] < 0 /\ cl_roi[2] < 0
  /\ cl_roi[3] > cl_size[2] /\ cl_roi[4] > cl_size[1]
  /\ cl_once # cl_roi

\* C27: between loop iterations expected_marker_index equals the number of
\* retained crossing timestamps and lies in 0..TOTAL_MARKERS, and one
\* iteration raises it by at most 1 and never lowers it.
C27_IndexCountsTimestamps ==
  [][ /\ sp_expected_marker_index = Len(sp_crossing_timestamps)
      /\ sp_expected_marker_index' = Len(sp_crossing_timestamps')
      /\ sp_expected_marker_index' \in 0..TOTAL_MARKERS
      /\ sp_expected_marker_index' - sp_expected_marker_index \in {0, 1}
      /\ sp_expected_marker_index' = sp_expected_marker_index + 1
           => sp_crossing_timestamps' = Append(sp_crossing_timestamps, sp_now) ]_vars

\* all markers were indexed in a run that also rolled a crossing back
C27_Witness ==
  /\ sp_expected_marker_index = TOTAL_MARKERS
  /\ Len(sp_crossing_timestamps) = TOTAL_MARKERS
  /\ sp_rolled
  /\ sp_pc = "finished"

\* C28: total_count changes only when 'line present' goes from false to
\* true, and then by +1 with detection_active set; the first such change
\* leaves total_count = 1; a departure or an unchanged line state leaves
\* total_count and detection_active as they were.
C28_CounterFollowsArrivals ==
  [][ /\ det_total_count' # det_total_count
           => (/\ ~det_last_black_line_state /\ det_last_black_line_state'
               /\ det_total_count' = det_total_count + 1)
      /\ (~det_last_black_line_state /\ det_last_black_line_state')
           => (/\ det_total_count' = det_total_count + 1
               /\ det_detection_active'
               /\ (~det_detection_active => det_total_count' = 1))
      /\ ~(~det_last_black_line_state /\ det_last_black_line_state')
           => (/\ det_total_count' = det_total_count
               /\ det_detection_active' = det_detection_active) ]_vars

\* the line has arrived once and left again
C28_Witness ==
  /\ det_total_count = 1
  /\ det_detection_active
  /\ ~det_last_black_line_state
  /\ det_arrivals = 1
  /\ det_pc = "loop"

\* C29 (as stated): a run that reached TOTAL_MARKERS ends with exactly one
\* calculation_complete value after its pairwise speeds, the mean of all
\* TOTAL_MARKERS - 1 pairwise speeds it emitted.
C29_AverageOfAllPairs ==
  (sp_pc = "finished" /\ sp_expected_marker_index = TOTAL_MARKERS) =>
     LET n == Len(sp_calculation_complete)
         pairs == SelectSeq(sp_calculation_complete, LAMBDA e : e.site = "pair")
     IN  /\ Len(pairs) = TOTAL_MARKERS - 1
         /\ n = TOTAL_MARKERS
         /\ sp_calculation_complete[n].site = "avg"
         /\ sp_calculation_complete[n].v
              = Mean([i \in 1..Len(pairs) |-> pairs[i].v])

\* C30 (as stated): a crossing whose time difference to the previous
\* retained timestamp equals the minimum valid time is retained and a
\* speed is emitted for it.
C30_EqualDiffAccepted ==
  [][ ( /\ sp_cross_parity' # sp_cross_parity
        /\ sp_crossing_timestamps # <<>>
        /\ sp_time_limit > 0
        /\ sp_now - sp_crossing_timestamps[Len(sp_crossing_timestamps)] = sp_time_limit )
      => ( /\ sp_crossing_timestamps' = Append(sp_crossing_timestamps, sp_now)
           /\ Len(sp_calculation_complete') > Len(sp_calculation_complete) ) ]_vars

\* ---------------------------------------------------------------------
\* Claims C31..C40
\* ---------------------------------------------------------------------

\* C31 (as stated): the model is never called before the first line arrival,
\* and every call of process_roi made with detection active (the arrival
\* frame included) calls the model, until the run ends.
C31_InferenceOnEveryActiveFrame ==
  [][ /\ det_infer_calls' # det_infer_calls
           => (det_proc_parity' # det_proc_parity /\ det_arrivals' >= 1)
      /\ det_proc_parity' # det_proc_parity
           => (det_infer_calls' = det_infer_calls + 1 <=> det_detection_active') ]_vars

\* C31 (amended): the model is never called before the first line arrival;
\* a call of process_roi made by a regular loop iteration calls the model
\* exactly when detection is active; the final pass made once total_count
\* has reached count does not call the model.
C31_InferenceOnActiveFrameBelowQuota ==
  [][ /\ det_infer_calls' # det_infer_calls
           => (/\ det_proc_parity' # det_proc_parity
               /\ det_arrivals' >= 1
               /\ det_infer_calls' = det_infer_calls + 1)
      /\ (det_proc_parity' # det_proc_parity /\ det_total_count < DetCount)
           => (det_infer_calls' = det_infer_calls + 1 <=> det_detection_active')
      /\ (det_proc_parity' # det_proc_parity /\ det_total_count >= DetCount)
           => det_infer_calls' = det_infer_calls ]_vars

\* a run that called the model on its active frames and ended with the
\* final pass
C31_Witness ==
  /\ det_pc = "finished"
  /\ det_x
  /\ det_total_count >= DetCount
  /\ det_infer_calls >= 2
  /\ det_error_occurred = <<>>

\* C32: a frame whose clamped ROI has no width or no height makes the loop
\* emit error_occurred and leaves the line state, total_count, the active
\* flag, the seed flag, the running flag and the loop as they were; and
\* every frame that yields such a clamped ROI is reported.
C32_EmptyRoiSkipsFrame ==
  [][ /\ det_error_occurred' = Append(det_error_occurred, "roi")
           => (/\ RoiInvalid(det_actual')
               /\ det_last_black_line_state' = det_last_black_line_state
               /\ det_total_count' = det_total_count
               /\ det_detection_active' = det_detection_active
               /\ det_seed_detected' = det_seed_detected
               /\ det_proc_parity' = det_proc_parity
               /\ det_running' = det_running
               /\ det_pc' = "loop")
      /\ (det_actual' # det_actual /\ RoiInvalid(det_actual'))
           => det_error_occurred' = Append(det_error_occurred, "roi") ]_vars

\* after a frame skipped for its ROI the loop went on and saw the line arrive
C32_Witness ==
  /\ det_pc = "loop"
  /\ det_running
  /\ det_error_occurred = <<"roi">>
  /\ det_arrivals >= 1
  /\ ~RoiInvalid(det_actual)

\* C36 (as stated): a run that leaves its loop with the running flag still
\* set has reached count, makes one call of process_roi without calling the
\* model and ends normally; once count is reached no regular iteration runs.
C36_EndsAtQuotaWithFinalPass ==
  [][ /\ (det_pc = "loop" /\ det_pc' # "loop" /\ det_running)
           => (/\ det_total_count >= DetCount
               /\ det_pc' = "finished"
               /\ det_proc_parity' # det_proc_parity
               /\ det_infer_calls' = det_infer_calls)
      /\ (det_pc = "loop" /\ det_total_count >= DetCount
            /\ det_frames' # det_frames)
           => det_pc' # "loop" ]_vars

\* C33 (as stated): every request byte taken from a control connection by
\* the device's handler is answered by one response byte of its own, '1' for
\* a byte of {L, l, P, 1, 2, 3, 4, 5} and '0' otherwise.
C33_OneReplyPerRequestByte ==
  [][ \A s \in 1..MaxCalls :
        (/\ ~ctl_socks[s].closed /\ ~ctl_socks'[s].closed
         /\ Len(ctl_socks'[s].inq) < Len(ctl_socks[s].inq))
        => (/\ Len(ctl_socks[s].inq) - Len(ctl_socks'[s].inq) = 1
            /\ ctl_socks'[s].outq
                 = Append(ctl_socks[s].outq,
                          [b |-> IF Head(ctl_socks[s].inq).ch
                                      \in {"L", "l", "P", "1", "2", "3", "4", "5"}
                                 THEN "1" ELSE "0",
                           for |-> {Head(ctl_socks[s].inq).by}])) ]_vars

\* C37 (as stated): handle_thread_status completes without raising for an
\* "error" status in every state of CameraApp, also when speed_thread is
\* None.
C37_ErrorStatusHandledWithoutRaising == ~app_raised

\* C35: a step that runs disconnect_camera or on_close asks a running
\* calibrator to stop and leaves every DetectionThread as it was; and a
\* DetectionThread in its loop below its quota, while the frame source
\* returns None, stays there unless stop() is called on it.
C35_DisconnectLeavesDetectionRunning ==
  [][ /\ ((app_video = "running" /\ app_video' = "none")
            \/ (~app_closed /\ app_closed'))
           => (/\ app_det' = app_det
               /\ (app_speed_thread # 0 /\ app_sp[app_speed_thread] = "running")
                    => app_sp'[app_speed_thread] = "stopping")
      /\ \A t \in ThreadIds :
           (app_det[t] = "running" /\ ~app_frame)
             => (\/ app_det'[t] = "running"
                 \/ (app_det'[t] = "stopping" /\ app_queue' = app_queue)) ]_vars

\* after a disconnect a DetectionThread is still in its loop with no frame
\* to read, while the calibrator was asked to stop
C35_Witness ==
  /\ app_video = "none"
  /\ ~app_frame
  /\ \E t \in ThreadIds : app_det[t] = "running" /\ app_detection_thread = t
  /\ \E u \in ThreadIds : app_sp[u] = "stopping"

\* C34: whatever the connect button and the two control buttons do,
\* CameraApp's ControlThread is never connected: send_command is never
\* called, no connection is attempted and no byte is written.
C34_ControlNeverConnected ==
  /\ ~ctl_connected
  /\ ctl_socket = 0
  /\ ctl_calls = 0
  /\ ctl_connects = 0
  /\ ctl_written = 0
  /\ ctl_connection_status = <<>>

\* both buttons were pressed while a ControlThread existed
C34_Witness ==
  /\ ac_control_thread
  /\ ac_video = "running"
  /\ \E i \in 1..Len(ac_log) : ac_log[i] = "led"
  /\ \E i \in 1..Len(ac_log) : ac_log[i] = "photo"

\* C38: the value send_command returns is False exactly for a character
\* outside {L, l, P}; for L, l and P it is True, also when the connection
\* attempt failed, the transfer raised or the answer was not '1'.
C38_ReturnTellsAcceptanceOnly ==
  ctl_calls > 0 =>
     /\ ctl_last_return \in BOOLEAN
     /\ ctl_last_return <=> ctl_last_cmd \in {"L", "l", "P"}

\* a call with an accepted character has ended in command_sent(cmd, False)
\* and returned True
C38_Witness ==
  /\ ctl_pc[1] = "idle"
  /\ ctl_last_cmd \in {"L", "l", "P"}
  /\ ctl_last_return = TRUE
  /\ ctl_command_sent # <<>>
  /\ ctl_command_sent[Len(ctl_command_sent)] = <<ctl_last_cmd, FALSE>>

\* C40: the connection_status emissions are True, False, True, ... ; when
\* no send_command call is under way is_connected equals the last emitted
\* value (False when none was emitted), and is_connected implies an open
\* socket object.
C40_StatusAlternates ==
  /\ \A i \in 1..Len(ctl_connection_status) :
       ctl_connection_status[i] = (i % 2 = 1)
  /\ ctl_pc[1] = "idle"
       => ctl_connected = (IF ctl_connection_status = <<>> THEN FALSE
                           ELSE ctl_connection_status[Len(ctl_connection_status)])
  /\ ctl_connected => (ctl_socket # 0 /\ ~ctl_socks[ctl_socket].closed)

\* a channel that was connected, lost and connected again
C40_Witness ==
  /\ ctl_pc[1] = "idle"
  /\ ctl_connected
  /\ ctl_connection_status = <<TRUE, FALSE, TRUE>>

====
